---- MODULE Spec2Model ----
(***************************************************************************)
(* A model of the application engine of job_application_agent:             *)
(*   src/src/application_engine/apply_on_site.py                           *)
(* Text is modelled as a sequence of one-character strings.                *)
(***************************************************************************)
EXTENDS Integers, Sequences, FiniteSets, TLC

VARIABLES
    pc,             \* apply_to_job: the statement about to run
    user_data_dir,  \* apply_to_job: whether a persistent profile directory is given
    applicant_data, \* apply_to_job: "dict", or "not_a_dict" (no .get method)
    session,        \* the Playwright objects: playwright, browser, context, page
    nav,            \* the locals of the navigation part of apply_to_job
    form,           \* the locals and effects of fill_application_form
    cleanup,        \* the exception in flight, the close calls and the return value
    n_pc,       \* normalize_text driver: position
    n_text,     \* normalize_text driver: the input text
    n_once,     \* normalize_text(n_text)
    n_twice,    \* normalize_text(normalize_text(n_text))
    d_pc,       \* start-date step driver: position
    d_today,    \* datetime.date.today(): [year, month, day]
    d_probe,    \* outcome of start_date_input.is_visible()
    d_field,    \* the text filled into the start-date input
    d_count,    \* filled_count contributed by the start-date step
    m_pc,       \* is_field_mandatory driver: position
    m_ctl,      \* the control and its DOM surroundings
    m_result,   \* what is_field_mandatory(m_ctl) did: "True", "False" or "raised"
    l_pc,       \* find_job_link driver: position
    l_links,    \* the anchors of the search context, in document order
    l_target,   \* target_title
    l_direct_fails, \* whether locating the direct text selector raises
    l_result,   \* the index of the link find_job_link returned, 0 for None
    f_pc,           \* title filter driver: position
    f_title,        \* a found job title
    f_suggestion,   \* a suggested role
    f_matches,      \* title_matches_suggestion(f_title, f_suggestion)
    f_kept,         \* whether the filter of lines 232-233 keeps the job
    r_pc,           \* run_agent.py: the statement about to run
    target_locations,               \* main_args.locations
    resume_text,                    \* "unread", or what read_resume_text returned
    suggested_werkstudent_roles,    \* what the suggestion service returned
    r_loop,         \* the positions of the loops over locations, roles and cards
    job_cards,      \* linkedin_jobs or stepstone_jobs: the cards being looped over
    all_found_jobs,
    processed_job_urls,
    r_log,          \* what the run has done: service calls and their outcomes
    exit_code,      \* "none" while running, then the process's exit status
    sal_pc,         \* salutation step driver: position
    sal_preference, \* applicant_data.get("salutation_preference"), "" when missing
    sal_options,    \* the option elements of the dropdown, in document order
    sal,            \* the locals of the salutation step and what it selected
    scr_pc,         \* scraper operation: the statement about to run
    scr_op,         \* which operation of which scraper runs
    scr_session,    \* its Playwright objects, and the exception in flight
    scr_search,     \* the arguments and locals of LinkedInScraper.search_jobs
    up_pc,          \* upload steps driver: position
    up_inputs,      \* the names of the file inputs of the page, in document order
    up              \* the locals of the upload steps and what they did

mainVars == <<pc, user_data_dir, applicant_data, session, nav, form, cleanup>>
normVars == <<n_pc, n_text, n_once, n_twice>>
dateVars == <<d_pc, d_today, d_probe, d_field, d_count>>
mandVars == <<m_pc, m_ctl, m_result>>
linkVars == <<l_pc, l_links, l_target, l_direct_fails, l_result>>
filterVars == <<f_pc, f_title, f_suggestion, f_matches, f_kept>>
runVars == <<r_pc, target_locations, resume_text, suggested_werkstudent_roles, r_loop,
             job_cards, all_found_jobs, processed_job_urls, r_log, exit_code>>
salVars == <<sal_pc, sal_preference, sal_options, sal>>
scraperVars == <<scr_pc, scr_op, scr_session, scr_search>>
uploadVars == <<up_pc, up_inputs, up>>

vars == <<pc, user_data_dir, applicant_data, session, nav, form, cleanup,
          n_pc, n_text, n_once, n_twice,
          d_pc, d_today, d_probe, d_field, d_count,
          m_pc, m_ctl, m_result,
          l_pc, l_links, l_target, l_direct_fails, l_result,
          f_pc, f_title, f_suggestion, f_matches, f_kept,
          r_pc, target_locations, resume_text, suggested_werkstudent_roles, r_loop,
          job_cards, all_found_jobs, processed_job_urls, r_log, exit_code,
          sal_pc, sal_preference, sal_options, sal,
          scr_pc, scr_op, scr_session, scr_search,
          up_pc, up_inputs, up>>

(***************************************************************************)
(* Bounds of the model.                                                    *)
(***************************************************************************)
MaxTextLen == 4
MaxLinks == 2
MaxFailedClicks == 2
MaxFileInputs == 3
FirstYear == 2023
YearSpan == 1
MaxTitleWords == 2
MaxSuggestionWords == 2
MaxCards == 1
MaxOptions == 3
MaxHeight == 2
MaxElements == 2
MaxWanted == 2
MaxUploadInputs == 2
MaxSuffixes == 2
MaxPasses == 2

(***************************************************************************)
(* Text helpers: Python's str and re semantics on sequences of characters. *)
(***************************************************************************)
UpperLetters == <<"A","B","C","D","E","F","G","H","I","J","K","L","M",
                  "N","O","P","Q","R","S","T","U","V","W","X","Y","Z">>

LowerLetters == <<"a","b","c","d","e","f","g","h","i","j","k","l","m",
                  "n","o","p","q","r","s","t","u","v","w","x","y","z">>

Digits == <<"0","1","2","3","4","5","6","7","8","9">>

Range(s) == {s[i] : i \in 1..Len(s)}

\* str.lower() on one character
LowerChar(c) ==
    IF c \in Range(UpperLetters)
    THEN LowerLetters[CHOOSE i \in 1..Len(UpperLetters) : UpperLetters[i] = c]
    ELSE c

\* str.lower()
Lower(s) == [i \in 1..Len(s) |-> LowerChar(s[i])]

\* the regex class \s and the characters str.strip() removes
IsSpace(c) == c \in {" ", "\t", "\n"}

\* the regex class [\s()/-]
IsTrailChar(c) == IsSpace(c) \/ c \in {"(", ")", "/", "-"}

\* the regex class [a-z0-9] under re.IGNORECASE
IsAlnum(c) == c \in Range(LowerLetters) \cup Range(UpperLetters) \cup Range(Digits)

\* a mutation of DropTrailing: the regex without its '+', one character only
DropTrailingOne(s) ==
    IF s # <<>> /\ IsTrailChar(s[Len(s)])
    THEN SubSeq(s, 1, Len(s) - 1)
    ELSE s

RECURSIVE DropTrailing(_)
\* re.sub(r'[\s()/-]+$', '', s): the maximal run of class characters at the end
DropTrailing(s) ==
    IF s # <<>> /\ IsTrailChar(s[Len(s)])
    THEN DropTrailing(SubSeq(s, 1, Len(s) - 1))
    ELSE s

RECURSIVE DropLeadingNonAlnum(_)
\* re.sub(r'^[^a-z0-9]+', '', s, flags=re.IGNORECASE)
DropLeadingNonAlnum(s) ==
    IF s # <<>> /\ ~IsAlnum(s[1])
    THEN DropLeadingNonAlnum(Tail(s))
    ELSE s

RECURSIVE LStrip(_)
LStrip(s) == IF s # <<>> /\ IsSpace(s[1]) THEN LStrip(Tail(s)) ELSE s

RECURSIVE RStrip(_)
RStrip(s) ==
    IF s # <<>> /\ IsSpace(s[Len(s)])
    THEN RStrip(SubSeq(s, 1, Len(s) - 1))
    ELSE s

\* str.strip()
PyStrip(s) == LStrip(RStrip(s))

RECURSIVE CollapseSpaces(_)
\* re.sub(r'\s+', ' ', s): every maximal whitespace run becomes one space
CollapseSpaces(s) ==
    IF s = <<>> THEN <<>>
    ELSE IF IsSpace(s[1])
         THEN <<" ">> \o CollapseSpaces(LStrip(s))
         ELSE <<s[1]>> \o CollapseSpaces(Tail(s))

\* normalize_text(text)
normalize_text(text) ==
    IF text = <<>> THEN <<>>
    ELSE LET t1 == Lower(text)
             t2 == PyStrip(DropTrailing(t1))
             t3 == PyStrip(DropLeadingNonAlnum(t2))
             t4 == PyStrip(CollapseSpaces(t3))
         IN  t4

(***************************************************************************)
(* normalize_text applied to every bounded text over a small alphabet, and *)
(* then to its own result.                                                 *)
(***************************************************************************)
NormAlphabet == {"a", "B", " ", "\t", "(", "-", "!"}

RECURSIVE TextsUpTo(_, _)
TextsUpTo(alphabet, n) ==
    IF n = 0 THEN {<<>>}
    ELSE LET shorter == TextsUpTo(alphabet, n - 1)
         IN  shorter \cup {Append(t, c) : t \in shorter, c \in alphabet}

\* the visual variants of one title: "  Werkstudent (m/w/d) - " and "WERKSTUDENT"
TitleWithGenderSuffix ==
    <<" "," ","W","e","r","k","s","t","u","d","e","n","t"," ",
      "(","m","/","w","/","d",")"," ","-"," ">>

TitleUpperCase == <<"W","E","R","K","S","T","U","D","E","N","T">>

TitleVariants == {TitleWithGenderSuffix, TitleUpperCase}

NoText == <<"unset">>

OnlyNorm == UNCHANGED <<mainVars, dateVars, mandVars, linkVars, filterVars, runVars, salVars,
        scraperVars, uploadVars>>

NormalizeOnce ==
    /\ n_pc = "input"
    /\ n_once' = normalize_text(n_text)
    /\ n_pc' = "once"
    /\ UNCHANGED <<n_text, n_twice>>
    /\ OnlyNorm

NormalizeAgain ==
    /\ n_pc = "once"
    /\ n_twice' = normalize_text(n_once)
    /\ n_pc' = "twice"
    /\ UNCHANGED <<n_text, n_once>>
    /\ OnlyNorm

(***************************************************************************)
(* The start-date step of fill_application_form (lines 538-559).           *)
(***************************************************************************)
IsLeap(y) == (y % 4 = 0 /\ y % 100 # 0) \/ y % 400 = 0

DaysIn(y, m) ==
    IF m = 2 THEN (IF IsLeap(y) THEN 29 ELSE 28)
    ELSE IF m \in {4, 6, 9, 11} THEN 30 ELSE 31

Dates == {[year |-> y, month |-> m, day |-> d] :
            y \in FirstYear..(FirstYear + YearSpan), m \in 1..12, d \in 1..31}

ValidDates == {t \in Dates : t.day <= DaysIn(t.year, t.month)}

\* date + relativedelta(months=n): the month advances, the year rolls over,
\* the day is clipped to the length of the month reached
AddMonths(t, n) ==
    LET total == (t.month - 1) + n
        y == t.year + (total \div 12)
        m == (total % 12) + 1
        last == DaysIn(y, m)
    IN  [year |-> y, month |-> m, day |-> IF t.day > last THEN last ELSE t.day]

\* a mutation of first_day_current_month: the day of the month is kept
first_day_current_month_kept(today) == today

\* today.replace(day=1)
first_day_current_month(today) == [today EXCEPT !.day = 1]

\* first_day_current_month + relativedelta(months=1)
first_day_next_month(today) == AddMonths(first_day_current_month(today), 1)

\* a mutation of target_start_date: the second step skips one month too many
target_start_date_late(today) == AddMonths(first_day_next_month(today), 2)

\* first_day_next_month + relativedelta(months=1)
target_start_date(today) == AddMonths(first_day_next_month(today), 1)

TwoDigits(n) == <<Digits[((n \div 10) % 10) + 1], Digits[(n % 10) + 1]>>

FourDigits(n) == TwoDigits(n \div 100) \o TwoDigits(n % 100)

\* date.strftime("%d.%m.%Y")
FormatDate(t) ==
    TwoDigits(t.day) \o <<".">> \o TwoDigits(t.month) \o <<".">> \o FourDigits(t.year)

OnlyDate == UNCHANGED <<mainVars, normVars, mandVars, linkVars, filterVars, runVars, salVars,
        scraperVars, uploadVars>>

\* the input is visible: the computed date is filled in and counted
FillStartDate ==
    /\ d_pc = "start_date"
    /\ d_probe = "visible"
    /\ d_field' = FormatDate(target_start_date(d_today))
    /\ d_count' = d_count + 1
    /\ d_pc' = "salary"
    /\ UNCHANGED <<d_today, d_probe>>
    /\ OnlyDate

\* the input is not visible, or the lookup raised: logged, nothing filled
SkipStartDate ==
    /\ d_pc = "start_date"
    /\ d_probe \in {"hidden", "raise"}
    /\ d_pc' = "salary"
    /\ UNCHANGED <<d_today, d_probe, d_field, d_count>>
    /\ OnlyDate

(***************************************************************************)
(* is_field_mandatory (lines 305-413).  A control is described by what     *)
(* each lookup on it and around it yields:                                 *)
(*   required: "none" (no attribute), "empty" (the bare boolean attribute, *)
(*             whose value is ""), "set" (a non-empty value), "raise"      *)
(*   aria:     "none", "true", "false", "raise"                            *)
(*   id, name: "none", "set", "raise"                                      *)
(*   label_id, span_id, label_name, span_name, ancestor:                   *)
(*             "hidden" (not visible), "star" (visible, text with '*'),    *)
(*             "plain" (visible, no '*'), "raise" (timeout or error)       *)
(***************************************************************************)
LookupOutcomes == {"hidden", "star", "plain", "raise"}

Controls ==
    [required : {"none", "empty", "set", "raise"},
     aria : {"none", "true", "false", "raise"},
     id : {"none", "set", "raise"},
     name : {"none", "set", "raise"},
     label_id : LookupOutcomes,
     span_id : LookupOutcomes,
     label_name : LookupOutcomes,
     span_name : LookupOutcomes,
     ancestor : LookupOutcomes]

\* lines 319-356: label[for=id] and the span following it, in their own try
IdLabelChecks(c) ==
    IF c.id # "set" THEN "next"
    ELSE IF c.label_id = "raise" THEN "next"
    ELSE IF c.label_id = "star" THEN "True"
    ELSE IF c.span_id = "star" THEN "True"
    ELSE "next"

\* lines 358-387: label[for=name] must be visible, then only the span
\* following it is read for an asterisk, in their own try
NameLabelChecks(c) ==
    IF c.name # "set" THEN "next"
    ELSE IF c.label_name \in {"raise", "hidden"} THEN "next"
    ELSE IF c.span_name = "star" THEN "True"
    ELSE "next"

\* lines 389-406: the ancestor label, in its own try
AncestorLabelCheck(c) == IF c.ancestor = "star" THEN "True" ELSE "next"

\* lines 307-409: the outer try.  ret is "True" (returned) or "end" (fell
\* through or caught an exception); id_bound tells whether input_id was assigned
MandatoryTryBlock(c) ==
    IF c.required = "raise" THEN [ret |-> "end", id_bound |-> FALSE]
    ELSE IF c.required = "set" THEN [ret |-> "True", id_bound |-> FALSE]
    ELSE IF c.aria = "raise" THEN [ret |-> "end", id_bound |-> FALSE]
    ELSE IF c.aria = "true" THEN [ret |-> "True", id_bound |-> FALSE]
    ELSE IF c.id = "raise" THEN [ret |-> "end", id_bound |-> FALSE]
    ELSE IF IdLabelChecks(c) = "True" THEN [ret |-> "True", id_bound |-> TRUE]
    ELSE IF c.name = "raise" THEN [ret |-> "end", id_bound |-> TRUE]
    ELSE IF NameLabelChecks(c) = "True" THEN [ret |-> "True", id_bound |-> TRUE]
    ELSE IF AncestorLabelCheck(c) = "True" THEN [ret |-> "True", id_bound |-> TRUE]
    ELSE [ret |-> "end", id_bound |-> TRUE]

\* lines 411-413, outside the try: the log line reads
\* element.get_attribute('name') or input_id, then False is returned
MandatoryFinalLog(c, id_bound) ==
    IF c.name = "raise" THEN "raised"
    ELSE IF c.name = "set" THEN "False"
    ELSE IF id_bound THEN "False"
    ELSE "raised"

is_field_mandatory(c) ==
    LET t == MandatoryTryBlock(c)
    IN  IF t.ret = "True" THEN "True" ELSE MandatoryFinalLog(c, t.id_bound)

OnlyMand == UNCHANGED <<mainVars, normVars, dateVars, linkVars, filterVars, runVars, salVars,
        scraperVars, uploadVars>>

CheckMandatory ==
    /\ m_pc = "call"
    /\ m_result' = is_field_mandatory(m_ctl)
    /\ m_pc' = "done"
    /\ UNCHANGED m_ctl
    /\ OnlyMand

(***************************************************************************)
(* find_job_link (lines 204-274).  A link is [text, vis, place]:           *)
(*   vis:   "yes", "no" (is_visible() is False), "raise" (it raises)       *)
(*   place: where the anchor sits, which decides the structural selectors  *)
(*          of JOB_LINK_SELECTORS that match it besides "a"                *)
(***************************************************************************)
JOB_LINK_SELECTORS ==
    <<"a", "li a", "div[role='listitem'] a", "h3 > a", "div[class*='job'] a">>

SelectorMatches(selector, link) ==
    CASE selector = "a" -> TRUE
      [] selector = "li a" -> link.place = "li"
      [] selector = "div[role='listitem'] a" -> link.place = "listitem"
      [] selector = "h3 > a" -> link.place = "h3"
      [] selector = "div[class*='job'] a" -> link.place = "jobdiv"

\* Python's  sub in s  on strings
Contains(s, sub) ==
    \E i \in 0..(Len(s) - Len(sub)) : SubSeq(s, i + 1, i + Len(sub)) = sub

RECURSIVE Split(_)
\* str.split(): the maximal runs of non-whitespace characters
Split(s) ==
    LET t == LStrip(s)
    IN  IF t = <<>> THEN <<>>
        ELSE LET n == IF \E i \in 1..Len(t) : IsSpace(t[i])
                      THEN (CHOOSE i \in 1..Len(t) :
                               IsSpace(t[i]) /\ \A j \in 1..(i - 1) : ~IsSpace(t[j])) - 1
                      ELSE Len(t)
             IN  <<SubSeq(t, 1, n)>> \o Split(SubSeq(t, n + 1, Len(t)))

\* re.sub(r'[()/\\]', ' ', s)
BracketsToSpaces(s) ==
    [i \in 1..Len(s) |-> IF s[i] \in {"(", ")", "/", "\\"} THEN " " ELSE s[i]]

\* lines 214-216
target_keywords(normalized_target_title) ==
    LET cleaned == PyStrip(CollapseSpaces(BracketsToSpaces(normalized_target_title)))
    IN  SelectSeq(Split(cleaned), LAMBDA word : Len(word) > 1)

\* all(keyword in normalized_text for keyword in target_keywords)
keywords_present(normalized_text, keywords) ==
    \A k \in 1..Len(keywords) : Contains(normalized_text, keywords[k])

\* the selector a:has-text("..."): a case-insensitive substring match on
\* text whose whitespace is trimmed and collapsed
HasText(text, needle) ==
    Contains(PyStrip(CollapseSpaces(Lower(text))), PyStrip(CollapseSpaces(Lower(needle))))

RECURSIVE DirectTextSearch(_, _, _, _)
\* lines 226-235: the loop over the direct-text matches from link i on;
\* the index of the link returned, 0 when the loop ends or an error leaves the try
DirectTextSearch(links, nt, keywords, i) ==
    IF i > Len(links) THEN 0
    ELSE IF ~HasText(links[i].text, nt) THEN DirectTextSearch(links, nt, keywords, i + 1)
    ELSE IF links[i].vis = "raise" THEN 0
    ELSE IF links[i].vis = "no" \/ links[i].text = <<>>
         THEN DirectTextSearch(links, nt, keywords, i + 1)
    ELSE IF keywords_present(normalize_text(PyStrip(links[i].text)), keywords) THEN i
    ELSE DirectTextSearch(links, nt, keywords, i + 1)

\* lines 243-248: the indexes of the links each structural selector yields,
\* selector after selector, each in document order
potential_links(links) ==
    LET OfSelector(k) ==
            SelectSeq([i \in 1..Len(links) |-> i],
                      LAMBDA i : SelectorMatches(JOB_LINK_SELECTORS[k], links[i]))
        RECURSIVE Upto(_)
        Upto(k) == IF k = 0 THEN <<>> ELSE Upto(k - 1) \o OfSelector(k)
    IN  Upto(Len(JOB_LINK_SELECTORS))

\* a mutation of BetterSim: a tie replaces the best match so far
BetterOrEqualSim(num, den, best_num, best_den) == num * best_den >= best_num * den

\* sim > highest_sim, with sim = num / den and highest_sim = best_num / best_den
BetterSim(num, den, best_num, best_den) == num * best_den > best_num * den

RECURSIVE StructuralSearch(_, _, _, _, _, _)
\* lines 251-267: the scoring loop over potential_links from position k on;
\* best is the index of best_match (0 for None), best_num / best_den is highest_sim
StructuralSearch(links, nt, keywords, cand, k, acc) ==
    IF k > Len(cand) THEN acc.best
    ELSE LET link == links[cand[k]]
             normalized_text == normalize_text(PyStrip(link.text))
             counts == /\ link.vis = "yes"
                       /\ link.text # <<>>
                       /\ keywords_present(normalized_text, keywords)
                       /\ normalized_text # <<>>
                       /\ BetterSim(Len(nt), Len(normalized_text), acc.num, acc.den)
         IN  StructuralSearch(links, nt, keywords, cand, k + 1,
                 IF counts
                 THEN [best |-> cand[k], num |-> Len(nt), den |-> Len(normalized_text)]
                 ELSE acc)

find_job_link(links, target_title, direct_fails) ==
    LET normalized_target_title == normalize_text(target_title)
        keywords == target_keywords(normalized_target_title)
        direct == IF direct_fails THEN 0
                  ELSE DirectTextSearch(links, normalized_target_title, keywords, 1)
    IN  IF direct # 0 THEN direct
        ELSE StructuralSearch(links, normalized_target_title, keywords,
                              potential_links(links), 1,
                              [best |-> 0, num |-> 0, den |-> 1])

TxtExact == <<"A","b"," ","c","d">>
TxtExactNoisy == <<" ","A","B"," "," ","c","d"," ","(">>
TxtLonger == <<"A","b"," ","c","d"," ","e","f">>
TxtSwapped == <<"c","d"," ","A","b">>
TxtOther == <<"x","y">>

LinkTexts == {TxtExact, TxtExactNoisy, TxtLonger, TxtSwapped, TxtOther, <<>>}

TargetTitles == {TxtExact, <<"c","d">>}

Links == [text : LinkTexts, vis : {"yes", "no", "raise"}, place : {"plain", "h3"}]

RECURSIVE PagesUpTo(_)
PagesUpTo(n) ==
    IF n = 0 THEN {<<>>}
    ELSE LET shorter == PagesUpTo(n - 1)
         IN  shorter \cup {Append(pg, l) : pg \in shorter, l \in Links}

OnlyLink == UNCHANGED <<mainVars, normVars, dateVars, mandVars, filterVars, runVars, salVars,
        scraperVars, uploadVars>>

FindJobLink ==
    /\ l_pc = "call"
    /\ l_result' = find_job_link(l_links, l_target, l_direct_fails)
    /\ l_pc' = "done"
    /\ UNCHANGED <<l_links, l_target, l_direct_fails>>
    /\ OnlyLink

(***************************************************************************)
(* apply_to_job (lines 769-957) and fill_application_form (lines 415-766). *)
(* Each action is one statement group of the code; what the browser does   *)
(* (visible or not, a timeout, a new tab) is chosen with \E.               *)
(***************************************************************************)
NumTextSelectors == 10
NumRegexSelectors == 8
NumOtherSelectors == 4
NumTextFields == 4
max_other_uploads == 2

\* potential_buttons: one locator per selector of the three lists
NumButtons == NumTextSelectors + NumRegexSelectors + NumOtherSelectors

\* Python values of mixed type
PyNone == [type |-> "NoneType", value |-> 0]
PyInt(n) == [type |-> "int", value |-> n]
Unassigned == [type |-> "unassigned", value |-> 0]

OnlyMain == UNCHANGED <<normVars, dateVars, mandVars, linkVars, filterVars, runVars, salVars,
        scraperVars, uploadVars>>

SessionStart ==
    [playwright |-> "off", browser |-> "None", context |-> "None",
     page |-> "None", orig_page_open |-> FALSE]

\* what the scan of potential_buttons works with and has met so far:
\*   search_context: where the candidates are located, "page" or "frame"
\*   iframe_context: what find_iframe_if_necessary returns for the loaded page
\*   outcome:        what the candidate examined last met
\*   visible_skipped: a candidate found visible was passed over
ScanStart ==
    [search_context |-> "unset", iframe_context |-> "unset", outcome |-> "none",
     visible_skipped |-> FALSE]

NavStart ==
    [accepted_cookie |-> FALSE, btn |-> 0, click_calls |-> 0, clicks_done |-> 0,
     clicked_primary_apply |-> FALSE, job_link_element |-> "None",
     final_url |-> "None", find_job_link_calls |-> 0, declared_failed |-> FALSE,
     scan |-> ScanStart]

FormStart ==
    [fill_calls |-> 0, page |-> "None", tf |-> 0, nfiles |-> 0, fi |-> 0,
     other_uploads_count |-> 0,
     docs_made |-> 0, filled_count |-> 0, form_filled |-> Unassigned,
     submit_located |-> FALSE, submit_clicks |-> 0]

CleanupStart ==
    [raised |-> FALSE, raised_in |-> "nowhere", context_close_calls |-> 0,
     close_on_torn_down |-> FALSE, browser_close_calls |-> 0, result |-> "unset"]

\* an exception leaves the body of the with statement of line 791
Raise(where) == cleanup' = [cleanup EXCEPT !.raised = TRUE, !.raised_in = where]

\* line 791: sync_playwright().__enter__()
StartPlaywright ==
    /\ pc = "start"
    /\ \E ok \in BOOLEAN :
         IF ok
         THEN /\ session' = [session EXCEPT !.playwright = "running"]
              /\ pc' = "launch"
              /\ UNCHANGED cleanup
         ELSE /\ pc' = "except"
              /\ Raise("setup")
              /\ UNCHANGED session
    /\ UNCHANGED <<user_data_dir, applicant_data, nav, form>>
    /\ OnlyMain

\* lines 792-801: launch_persistent_context, or launch and new_context
Launch ==
    /\ pc = "launch"
    /\ \E o \in {"ok", "launch_fails", "new_context_fails"} :
         /\ o = "new_context_fails" => ~user_data_dir
         /\ session' =
              IF o = "launch_fails" THEN session
              ELSE IF user_data_dir THEN [session EXCEPT !.context = "open"]
              ELSE IF o = "ok" THEN [session EXCEPT !.browser = "open", !.context = "open"]
              ELSE [session EXCEPT !.browser = "open"]
         /\ IF o = "ok"
            THEN pc' = "new_page" /\ UNCHANGED cleanup
            ELSE pc' = "with_exit" /\ Raise("setup")
    /\ UNCHANGED <<user_data_dir, applicant_data, nav, form>>
    /\ OnlyMain

\* line 803: context.new_page()
NewPage ==
    /\ pc = "new_page"
    /\ \E ok \in BOOLEAN :
         IF ok
         THEN /\ session' = [session EXCEPT !.page = "orig", !.orig_page_open = TRUE]
              /\ pc' = "goto"
              /\ UNCHANGED cleanup
         ELSE /\ pc' = "with_exit"
              /\ Raise("setup")
              /\ UNCHANGED session
    /\ UNCHANGED <<user_data_dir, applicant_data, nav, form>>
    /\ OnlyMain

\* line 808: page.goto(career_page_url)
Goto ==
    /\ pc = "goto"
    /\ \E ok \in BOOLEAN :
         IF ok
         THEN pc' = "cookies" /\ UNCHANGED cleanup
         ELSE pc' = "with_exit" /\ Raise("navigation")
    /\ UNCHANGED <<user_data_dir, applicant_data, session, nav, form>>
    /\ OnlyMain

\* lines 811-830: the loop over COOKIE_SELECTORS, every error caught inside it
CookieBanners ==
    /\ pc = "cookies"
    /\ \E accepted \in BOOLEAN : nav' = [nav EXCEPT !.accepted_cookie = accepted]
    /\ pc' = "network_idle"
    /\ UNCHANGED <<user_data_dir, applicant_data, session, form, cleanup>>
    /\ OnlyMain

\* lines 833-835: page.wait_for_load_state('networkidle')
WaitNetworkIdle ==
    /\ pc = "network_idle"
    /\ \E ok \in BOOLEAN :
         IF ok
         THEN pc' = "build" /\ UNCHANGED cleanup
         ELSE pc' = "with_exit" /\ Raise("navigation")
    /\ UNCHANGED <<user_data_dir, applicant_data, session, nav, form>>
    /\ OnlyMain

\* lines 177-181
iframe_selectors == <<"#psJobWidget iframe", "iframe[id*=grnhse_iframe]">>

\* what the probes of lines 188-193 meet for one selector: no visible iframe
\* (or is_visible timing out), an iframe whose body does not become visible,
\* an iframe with a visible body, or another error
IframeProbes ==
    [1..Len(iframe_selectors) -> {"absent", "body_hidden", "body_visible", "raise"}]

RECURSIVE FirstUsableIframe(_, _)
\* lines 186-199: the loop over iframe_selectors, leaving at the first iframe
\* whose body is visible
FirstUsableIframe(probes, i) ==
    IF i > Len(iframe_selectors) THEN "page"
    ELSE IF probes[i] = "body_visible" THEN "frame"
    ELSE FirstUsableIframe(probes, i + 1)

\* lines 174-201: the search context returned
find_iframe_if_necessary(probes) == FirstUsableIframe(probes, 1)

\* the list of potential_buttons a candidate comes from, by its position
KindOf(i) ==
    IF i <= NumTextSelectors THEN "text"
    ELSE IF i <= NumTextSelectors + NumRegexSelectors THEN "regex"
    ELSE "attribute"

\* lines 837-865: potential_buttons is built from the three selector lists, each
\* locator made by page.locator; find_iframe_if_necessary is not called
BuildCandidates ==
    /\ pc = "build"
    /\ \E probes \in IframeProbes :
         nav' = [nav EXCEPT
                   !.btn = 1,
                   !.scan = [ScanStart EXCEPT
                               !.search_context = "page",
                               !.iframe_context = find_iframe_if_necessary(probes)]]
    /\ pc' = "candidates"
    /\ UNCHANGED <<user_data_dir, applicant_data, session, form, cleanup>>
    /\ OnlyMain

\* what one iteration of the loop of lines 867-913 can meet
CandidateOutcomes ==
    {"not_visible",                 \* is_visible() is False or raises
     "error_before_click",          \* text_content or scroll_into_view raises
     "click_raises",                \* click raises another error than a timeout
     "click_times_out_load_ok",     \* click raises PlaywrightTimeoutError (line 889)
     "click_times_out_load_fails",
     "same_tab_load_ok",            \* clicked, expect_page timed out: no new tab
     "same_tab_load_fails",         \* ... and wait_for_load_state raises
     "new_tab_load_ok",             \* clicked, a new tab opened
     "new_tab_load_fails"}          \* ... and wait_for_load_state on it raises

\* line 869: is_visible() returned True
FoundVisible(o) == o # "not_visible"

IssuesClick(o) == o \notin {"not_visible", "error_before_click"}

CompletesClick(o) ==
    o \in {"same_tab_load_ok", "same_tab_load_fails", "new_tab_load_ok", "new_tab_load_fails"}

\* a mutation of OpensNewTab: a new tab is never taken over
OpensNewTabNever(o) == FALSE

\* lines 892-898: new_page_info is set, the old page is closed, page = new_page
OpensNewTab(o) == o \in {"new_tab_load_ok", "new_tab_load_fails"}

\* a mutation of ReachesBreak: the scan ends only after a new tab
ReachesBreakOnNewTab(o) == o = "new_tab_load_ok"

\* lines 904-907 are reached: no exception between the click and the break
ReachesBreak(o) ==
    o \in {"click_times_out_load_ok", "same_tab_load_ok", "new_tab_load_ok"}

\* lines 867-913: one candidate of potential_buttons
TryCandidate ==
    /\ pc = "candidates"
    /\ nav.btn <= NumButtons
    /\ \E o \in CandidateOutcomes :
         \* the locators belong to the original page: once it is closed they raise
         /\ ~session.orig_page_open => o = "not_visible"
         /\ (IssuesClick(o) /\ ~ReachesBreak(o)) => nav.click_calls < MaxFailedClicks
         /\ session' =
              IF OpensNewTab(o)
              THEN [session EXCEPT !.page = "new", !.orig_page_open = FALSE]
              ELSE session
         /\ nav' =
              [nav EXCEPT
                 !.click_calls = IF IssuesClick(o) THEN @ + 1 ELSE @,
                 !.clicks_done = IF CompletesClick(o) THEN @ + 1 ELSE @,
                 !.clicked_primary_apply = ReachesBreak(o),
                 !.final_url = IF ~ReachesBreak(o) THEN @
                               ELSE IF OpensNewTab(o) THEN "new_tab_url"
                               ELSE "orig_page_url",
                 !.btn = IF ReachesBreak(o) THEN 0 ELSE @ + 1,
                 !.scan = [@ EXCEPT
                             !.outcome = o,
                             !.visible_skipped =
                                 @ \/ (FoundVisible(o) /\ ~ReachesBreak(o))]]
         /\ pc' = IF ReachesBreak(o) THEN "after_loop" ELSE "candidates"
    /\ UNCHANGED <<user_data_dir, applicant_data, form, cleanup>>
    /\ OnlyMain

\* the loop of line 867 runs out of candidates
CandidatesExhausted ==
    /\ pc = "candidates"
    /\ nav.btn > NumButtons
    /\ nav' = [nav EXCEPT !.btn = 0]
    /\ pc' = "after_loop"
    /\ UNCHANGED <<user_data_dir, applicant_data, session, form, cleanup>>
    /\ OnlyMain

\* lines 915-921: both branches only log; find_job_link is not called and
\* job_link_element keeps the None of line 789; nothing of the scan is used
\* from here on
AfterCandidates ==
    /\ pc = "after_loop"
    /\ nav' = [nav EXCEPT !.scan = ScanStart]
    /\ pc' = "proceed"
    /\ UNCHANGED <<user_data_dir, applicant_data, session, form, cleanup>>
    /\ OnlyMain

\* a mutation of proceed_to_fill: the form is filled whatever the navigation did
proceed_always(clicked, link) == TRUE

\* line 924: if clicked_primary_apply or job_link_element
proceed_to_fill(clicked, link) == clicked \/ link # "None"

\* lines 923-931
ProceedToFill ==
    /\ pc = "proceed"
    /\ IF proceed_to_fill(nav.clicked_primary_apply, nav.job_link_element)
       THEN IF session.page # "None"
            THEN /\ form' = [form EXCEPT !.fill_calls = @ + 1, !.tf = 1,
                                         !.page = session.page]
                 /\ pc' = "fill_salutation"
                 /\ UNCHANGED nav
            ELSE /\ pc' = "with_exit"
                 /\ UNCHANGED <<nav, form>>
       ELSE /\ nav' = [nav EXCEPT !.declared_failed = TRUE]
            /\ pc' = "with_exit"
            /\ UNCHANGED form
    /\ UNCHANGED <<user_data_dir, applicant_data, session, cleanup>>
    /\ OnlyMain

\* one field step in its own try/except: the control is absent (not visible,
\* no value, nothing to do), acted on and counted, or an error is caught
FieldStep(here, next, can_act) ==
    /\ pc = here
    /\ \E o \in {"absent", "acted", "error"} :
         /\ o = "acted" => can_act
         /\ form' = [form EXCEPT !.filled_count = IF o = "acted" THEN @ + 1 ELSE @]
    /\ pc' = next
    /\ UNCHANGED <<user_data_dir, applicant_data, session, nav, cleanup>>
    /\ OnlyMain

\* lines 420-489: applicant_data.get is called inside the try
FillSalutation == FieldStep("fill_salutation", "fill_text", applicant_data = "dict")

\* lines 491-514: first_name, last_name, email, phone
FillTextField ==
    /\ pc = "fill_text"
    /\ \E o \in {"absent", "acted", "error"} :
         /\ o = "acted" => applicant_data = "dict"
         /\ form' = [form EXCEPT !.filled_count = IF o = "acted" THEN @ + 1 ELSE @,
                                 !.tf = IF @ = NumTextFields THEN 0 ELSE @ + 1]
    /\ pc' = IF form.tf = NumTextFields THEN "fill_resume" ELSE "fill_text"
    /\ UNCHANGED <<user_data_dir, applicant_data, session, nav, cleanup>>
    /\ OnlyMain

\* lines 516-536: applicant_data.get("resume_path") is outside any try
HandleResume ==
    /\ pc = "fill_resume"
    /\ IF applicant_data = "not_a_dict"
       THEN /\ pc' = "with_exit"
            /\ Raise("fill")
            /\ UNCHANGED form
       ELSE /\ \E o \in {"absent", "acted", "error"} :
                 form' = [form EXCEPT !.filled_count = IF o = "acted" THEN @ + 1 ELSE @]
            /\ pc' = "fill_start_date"
            /\ UNCHANGED cleanup
    /\ UNCHANGED <<user_data_dir, applicant_data, session, nav>>
    /\ OnlyMain

\* lines 538-559: the date does not come from applicant_data
FillStartDateField == FieldStep("fill_start_date", "fill_salary", TRUE)

\* lines 561-579
FillSalary == FieldStep("fill_salary", "list_files", applicant_data = "dict")

\* lines 633-642: page.locator('input[type="file"]').all(), inside the try of 633
ListFileInputs ==
    /\ pc = "list_files"
    /\ \/ \E n \in 0..MaxFileInputs :
            /\ form' = [form EXCEPT !.nfiles = n, !.fi = 1, !.other_uploads_count = 0]
            /\ pc' = "file_loop"
       \/ /\ pc' = "fill_source"
          /\ UNCHANGED form
    /\ UNCHANGED <<user_data_dir, applicant_data, session, nav, cleanup>>
    /\ OnlyMain

\* what one iteration of the loop of lines 644-699 can meet
FileInputOutcomes ==
    {"is_resume",           \* name == "cv[cv]"
     "attribute_error",     \* get_attribute raises: caught at line 701
     "is_cover_letter",
     "hidden",
     "visibility_error",    \* is_visible raises: caught at line 701
     "over_cap",            \* other_uploads_count >= max_other_uploads
     "no_text",             \* generate_placeholder_doc_text returned nothing
     "pdf_fails",           \* generate_placeholder_pdf returned False
     "not_enabled",
     "enabled_error",       \* is_enabled raises: caught at line 701
     "uploaded",
     "upload_error"}        \* set_input_files raises: caught at line 701

LeavesFileLoop(o) ==
    o \in {"attribute_error", "visibility_error", "enabled_error", "upload_error"}

\* the placeholder PDF was written (line 684 returned True)
WritesDocument(o) == o \in {"not_enabled", "enabled_error", "uploaded", "upload_error"}

NeedsRoom(o) == WritesDocument(o) \/ o \in {"no_text", "pdf_fails"}

\* lines 644-699: one file input
HandleFileInput ==
    /\ pc = "file_loop"
    /\ form.fi <= form.nfiles
    /\ \E o \in FileInputOutcomes :
         /\ NeedsRoom(o) => form.other_uploads_count < max_other_uploads
         /\ o = "over_cap" => form.other_uploads_count >= max_other_uploads
         /\ form' =
              [form EXCEPT
                 !.docs_made = IF WritesDocument(o) THEN @ + 1 ELSE @,
                 !.filled_count = IF o = "uploaded" THEN @ + 1 ELSE @,
                 !.other_uploads_count = IF o = "uploaded" THEN @ + 1 ELSE @,
                 !.fi = IF LeavesFileLoop(o) THEN 0 ELSE @ + 1,
                 !.nfiles = IF LeavesFileLoop(o) THEN 0 ELSE @]
         /\ pc' = IF LeavesFileLoop(o) THEN "fill_source" ELSE "file_loop"
    /\ UNCHANGED <<user_data_dir, applicant_data, session, nav, cleanup>>
    /\ OnlyMain

\* the loop of line 644 runs out of file inputs
FileInputsExhausted ==
    /\ pc = "file_loop"
    /\ form.fi > form.nfiles
    /\ form' = [form EXCEPT !.fi = 0, !.nfiles = 0]
    /\ pc' = "fill_source"
    /\ UNCHANGED <<user_data_dir, applicant_data, session, nav, cleanup>>
    /\ OnlyMain

\* lines 705-729: the option at index 1, whatever applicant_data says
FillSource == FieldStep("fill_source", "fill_consent", TRUE)

\* lines 731-748
FillConsent == FieldStep("fill_consent", "find_submit", TRUE)

\* a mutation of submit_clicks_after: line 761 not commented out
submit_clicks_if_clicked(clicks, located) == IF located THEN clicks + 1 ELSE clicks

\* lines 759-762: the submit button, when visible, is logged; the click of
\* line 761 is a comment
submit_clicks_after(clicks, located) == clicks

\* lines 750-766: the final count is logged, the submit button is looked for
FindSubmitButton ==
    /\ pc = "find_submit"
    /\ \E o \in {"visible", "not_visible", "error"} :
         form' = [form EXCEPT
                    !.submit_located = (o = "visible"),
                    !.submit_clicks = submit_clicks_after(@, o = "visible")]
    /\ pc' = "fill_return"
    /\ UNCHANGED <<user_data_dir, applicant_data, session, nav, cleanup>>
    /\ OnlyMain

\* fill_application_form has no return statement: its caller receives None
fill_return_value(filled_count) == PyNone

\* line 927: form_filled = fill_application_form(page, applicant_data)
FillReturns ==
    /\ pc = "fill_return"
    /\ form' = [form EXCEPT !.form_filled = fill_return_value(form.filled_count)]
    /\ pc' = "with_exit"
    /\ UNCHANGED <<user_data_dir, applicant_data, session, nav, cleanup>>
    /\ OnlyMain

\* a mutation of playwright_stop: leaving the with statement closes nothing
playwright_stop_closes_nothing(resource) == resource

\* what the exit of `with sync_playwright()` does to a browser, context or page
\* launched inside it: the driver stops, and what was still open is torn down
playwright_stop(resource) == IF resource = "open" THEN "torn_down" ELSE resource

\* line 791: the with statement is left, normally or by an exception, and
\* sync_playwright's __exit__ stops Playwright: the browser and the context it
\* launched are torn down before the except and finally clauses run
WithExit ==
    /\ pc = "with_exit"
    /\ session' = [session EXCEPT
                     !.playwright = "stopped",
                     !.browser = playwright_stop(@),
                     !.context = playwright_stop(@)]
    /\ pc' = IF cleanup.raised THEN "except" ELSE "finally_context"
    /\ UNCHANGED <<user_data_dir, applicant_data, nav, form, cleanup>>
    /\ OnlyMain

\* lines 933-935
ExceptClause ==
    /\ pc = "except"
    /\ nav' = [nav EXCEPT !.final_url = "None"]
    /\ pc' = "finally_context"
    /\ UNCHANGED <<user_data_dir, applicant_data, session, form, cleanup>>
    /\ OnlyMain

\* lines 939-949: context.close() is called when context.pages is not empty;
\* the list of a torn-down context may still hold the pages it had, or be
\* empty; an error of close() is caught
FinallyContext ==
    /\ pc = "finally_context"
    /\ IF session.context = "None"
       THEN UNCHANGED <<session, cleanup>>
       ELSE \E pages_listed \in BOOLEAN :
              /\ pages_listed => session.page # "None"
              /\ (session.context = "open" /\ session.page # "None") => pages_listed
              /\ IF pages_listed
                 THEN /\ cleanup' =
                           [cleanup EXCEPT
                              !.context_close_calls = @ + 1,
                              !.close_on_torn_down = @ \/ session.context # "open"]
                      /\ session' = [session EXCEPT
                                       !.context = IF @ = "open" THEN "closed" ELSE @]
                 ELSE UNCHANGED <<session, cleanup>>
    /\ pc' = "finally_browser"
    /\ UNCHANGED <<user_data_dir, applicant_data, nav, form>>
    /\ OnlyMain

\* lines 950-955: browser.close(), an error caught
FinallyBrowser ==
    /\ pc = "finally_browser"
    /\ IF session.browser = "None"
       THEN UNCHANGED <<session, cleanup>>
       ELSE /\ cleanup' = [cleanup EXCEPT !.browser_close_calls = @ + 1]
            /\ session' = [session EXCEPT !.browser = IF @ = "open" THEN "closed" ELSE @]
    /\ pc' = "return"
    /\ UNCHANGED <<user_data_dir, applicant_data, nav, form>>
    /\ OnlyMain

\* line 957: return final_url
Return ==
    /\ pc = "return"
    /\ cleanup' = [cleanup EXCEPT !.result = nav.final_url]
    /\ pc' = "done"
    /\ UNCHANGED <<user_data_dir, applicant_data, session, nav, form>>
    /\ OnlyMain

(***************************************************************************)
(* run_agent.py: the title filter (lines 138-171 and the condition of      *)
(* lines 232-233 and 271-272).                                             *)
(***************************************************************************)
Werkstudent == <<"W","e","r","k","s","t","u","d","e","n","t">>
Working == <<"W","o","r","k","i","n","g">>
Student == <<"S","t","u","d","e","n","t">>
Data == <<"D","a","t","a">>
Analyst == <<"A","n","a","l","y","s","t">>
Analysis == <<"A","n","a","l","y","s","i","s">>
Senior == <<"S","e","n","i","o","r">>
Lead == <<"L","e","a","d">>
GenderSuffix == <<"(","m","/","w","/","d",")">>

RECURSIVE JoinWords(_)
\* the words of a title or of a suggestion, separated by single spaces
JoinWords(ws) ==
    IF ws = <<>> THEN <<>>
    ELSE IF Len(ws) = 1 THEN ws[1]
    ELSE ws[1] \o <<" ">> \o JoinWords(Tail(ws))

\* lines 138-142, in list order
EXCLUSION_KEYWORDS ==
    <<Lower(Senior), Lower(Lead),
      <<"p","r","i","n","c","i","p","a","l">>,
      <<"s","r",".">>,
      <<"d","i","r","e","c","t","o","r">>,
      <<"i","n","t","e","r","n">>,
      <<"i","n","t","e","r","n","s","h","i","p">>,
      <<"p","r","a","k","t","i","k","a","n","t">>,
      <<"p","r","a","k","t","i","k","u","m">>,
      <<"a","u","s","b","i","l","d","u","n","g">>,
      <<"a","u","s","z","u","b","i","l","d","e","n","d","e">>>>

\* line 158
ignore_terms ==
    {Lower(Werkstudent), Lower(Working), Lower(Student),
     <<"/">>, <<"m">>, <<"w">>, <<"d">>, <<"g","n">>, <<"i","n">>}

\* the regex class \w
IsWordChar(c) == IsAlnum(c) \/ c = "_"

RECURSIVE FindWords(_, _)
\* set(re.findall(r'\b\w+\b', s)): the maximal runs of word characters;
\* cur is the run being read
FindWords(s, cur) ==
    IF s = <<>> THEN (IF cur = <<>> THEN {} ELSE {cur})
    ELSE IF IsWordChar(s[1]) THEN FindWords(Tail(s), Append(cur, s[1]))
    ELSE (IF cur = <<>> THEN {} ELSE {cur}) \cup FindWords(Tail(s), <<>>)

\* a mutation of names_student_role: the basic check of line 154 left out
names_any_role(found_lower) == TRUE

\* line 154: 'werkstudent' in found_lower or 'working student' in found_lower
names_student_role(found_lower) ==
    \/ Contains(found_lower, Lower(Werkstudent))
    \/ Contains(found_lower, Lower(JoinWords(<<Working, Student>>)))

\* lines 145-171
title_matches_suggestion(found_title, suggested_title) ==
    IF found_title = <<>> \/ suggested_title = <<>> THEN FALSE
    ELSE LET found_lower == Lower(found_title)
             suggested_lower == Lower(suggested_title)
             suggestion_terms == FindWords(suggested_lower, <<>>) \ ignore_terms
         IN  IF ~names_student_role(found_lower) THEN FALSE
             ELSE IF suggestion_terms = {} THEN TRUE
             ELSE \A term \in suggestion_terms : Contains(found_lower, term)

\* a mutation of has_exclusion_keyword: the title is not lower-cased first
has_exclusion_keyword_as_written(job_title) ==
    \E i \in 1..Len(EXCLUSION_KEYWORDS) : Contains(job_title, EXCLUSION_KEYWORDS[i])

\* lines 233 and 272: any(excl_kw in job_title.lower() for excl_kw in EXCLUSION_KEYWORDS)
has_exclusion_keyword(job_title) ==
    \E i \in 1..Len(EXCLUSION_KEYWORDS) :
        Contains(Lower(job_title), EXCLUSION_KEYWORDS[i])

\* lines 232-233 and 271-272: the condition under which a job card is kept
passes_filter(job_title, suggested_role) ==
    title_matches_suggestion(job_title, suggested_role) /\ ~has_exclusion_keyword(job_title)

\* the two job titles and the suggestion of the end-to-end scenario
TitleDataAnalyst == JoinWords(<<Werkstudent, Data, Analyst, GenderSuffix>>)
TitleSeniorLead == JoinWords(<<Senior, Werkstudent, Lead>>)
SuggestionDataAnalysis == JoinWords(<<Werkstudent, Data, Analysis>>)

RECURSIVE Phrases(_, _)
\* the texts of at most n words of a vocabulary
Phrases(words, n) ==
    IF n = 0 THEN {<<>>}
    ELSE LET shorter == Phrases(words, n - 1)
         IN  shorter \cup {IF p = <<>> THEN w ELSE p \o <<" ">> \o w :
                             p \in shorter, w \in words}

FoundTitles ==
    Phrases({Werkstudent, Working, Student, Data, Analyst, Senior}, MaxTitleWords)
        \cup {TitleDataAnalyst, TitleSeniorLead, TitleUpperCase}

SuggestedTitles ==
    Phrases({Werkstudent, Data, Analysis}, MaxSuggestionWords)
        \cup {SuggestionDataAnalysis}

OnlyFilter == UNCHANGED <<mainVars, normVars, dateVars, mandVars, linkVars, runVars, salVars,
        scraperVars, uploadVars>>

\* one job card meets the filter of lines 232-233
FilterTitle ==
    /\ f_pc = "call"
    /\ f_matches' = title_matches_suggestion(f_title, f_suggestion)
    /\ f_kept' = passes_filter(f_title, f_suggestion)
    /\ f_pc' = "done"
    /\ UNCHANGED <<f_title, f_suggestion>>
    /\ OnlyFilter

(***************************************************************************)
(* run_agent.py: the top-level run (lines 174-317).  What the services do  *)
(* (the suggestion service, the scrapers, the file system) is chosen with  *)
(* \E.  A job card is [url, title]; the empty url stands for a card        *)
(* without one.                                                            *)
(***************************************************************************)
DEFAULT_SEARCH_LOCATIONS == <<"Koeln", "Duesseldorf", "Bonn">>

\* main_args.locations: the default, or what --locations names
LocationLists == {DEFAULT_SEARCH_LOCATIONS, <<"Berlin">>}

\* what suggest_job_titles_from_resume can return: every suggestion names the
\* student role (gemini_client.py line 171)
RoleLists ==
    {<<>>, <<JoinWords(<<Werkstudent, Data>>)>>,
     <<JoinWords(<<Werkstudent, Data>>), Werkstudent>>}

CardUrls == {"", "u1", "u2"}

CardTitles ==
    {JoinWords(<<Werkstudent, Data>>),
     JoinWords(<<Senior, Werkstudent, Data>>),
     JoinWords(<<<<"S","E","N","I","O","R">>, Werkstudent>>),
     JoinWords(<<Data, Analyst>>)}

JobCards == [url : CardUrls, title : CardTitles]

RECURSIVE CardListsUpTo(_)
\* what search_jobs can return: at most max_results cards
CardListsUpTo(n) ==
    IF n = 0 THEN {<<>>}
    ELSE LET shorter == CardListsUpTo(n - 1)
         IN  shorter \cup {Append(l, c) : l \in shorter, c \in JobCards}

LoopStart == [location |-> 0, role |-> 0, card |-> 0]

\* how often something has happened: never, once, or more than once
OneMore(times) == IF times = "never" THEN "once" ELSE "again"

\* the log of a run; details_calls tells, for each URL, how often
\* get_job_details was called with it
LogStart ==
    [configured |-> "unknown", roles |-> "unasked", scraping_started |-> FALSE,
     details_fetched |-> {}, save |-> "untried",
     details_calls |-> [u \in CardUrls |-> "never"]]

OnlyRun == UNCHANGED <<mainVars, normVars, dateVars, mandVars, linkVars, filterVars, salVars,
        scraperVars, uploadVars>>

\* exit(code), or the interpreter's status after an uncaught exception
Exit(code) == r_pc' = "exited" /\ exit_code' = code

\* lines 180-182
ConfigureGemini ==
    /\ r_pc = "configure"
    /\ \E ok \in BOOLEAN :
         /\ r_log' = [r_log EXCEPT !.configured = IF ok THEN "yes" ELSE "no"]
         /\ IF ok THEN r_pc' = "read_resume" /\ UNCHANGED exit_code ELSE Exit("1")
    /\ UNCHANGED <<target_locations, resume_text, suggested_werkstudent_roles, r_loop,
                   job_cards, all_found_jobs, processed_job_urls>>
    /\ OnlyRun

\* lines 186-189: read_resume_text returns the text, None on an error, or ""
ReadResume ==
    /\ r_pc = "read_resume"
    /\ \E text \in {"text", "", "None"} :
         /\ resume_text' = text
         /\ IF text = "text" THEN r_pc' = "suggest" /\ UNCHANGED exit_code ELSE Exit("1")
    /\ UNCHANGED <<target_locations, suggested_werkstudent_roles, r_loop, job_cards,
                   all_found_jobs, processed_job_urls, r_log>>
    /\ OnlyRun

\* lines 191-196
SuggestRoles ==
    /\ r_pc = "suggest"
    /\ \E roles \in RoleLists :
         /\ suggested_werkstudent_roles' = roles
         /\ r_log' = [r_log EXCEPT !.roles = IF roles = <<>> THEN "none" ELSE "some"]
         /\ IF roles # <<>> THEN r_pc' = "construct" /\ UNCHANGED exit_code ELSE Exit("1")
    /\ UNCHANGED <<target_locations, resume_text, r_loop, job_cards, all_found_jobs,
                   processed_job_urls>>
    /\ OnlyRun

\* lines 200-213: the scraper objects only store the headless flag
ConstructScrapers ==
    /\ r_pc = "construct"
    /\ all_found_jobs' = <<>>
    /\ processed_job_urls' = {}
    /\ r_loop' = [location |-> 1, role |-> 1, card |-> 0]
    /\ r_pc' = "linkedin_search"
    /\ UNCHANGED <<target_locations, resume_text, suggested_werkstudent_roles, job_cards,
                   r_log, exit_code>>
    /\ OnlyRun

\* lines 216-224 and 249-252: linkedin_scraper.search_jobs returns or raises
SearchLinkedIn ==
    /\ r_pc = "linkedin_search"
    /\ r_log' = [r_log EXCEPT !.scraping_started = TRUE]
    /\ \/ \E linkedin_jobs \in CardListsUpTo(MaxCards) :
            /\ job_cards' = linkedin_jobs
            /\ r_loop' = [r_loop EXCEPT !.card = 1]
            /\ r_pc' = "linkedin_cards"
       \/ /\ r_pc' = "stepstone_search"
          /\ UNCHANGED <<job_cards, r_loop>>
    /\ UNCHANGED <<target_locations, resume_text, suggested_werkstudent_roles,
                   all_found_jobs, processed_job_urls, exit_code>>
    /\ OnlyRun

\* a mutation of already_processed: only a missing URL is skipped
already_processed_if_missing(job_url, processed) == job_url = ""

\* lines 226-228 and 265-267: if not job_url or job_url in processed_job_urls
already_processed(job_url, processed) == job_url = "" \/ job_url \in processed

\* lines 225-247 and 251: one card of linkedin_jobs
LinkedInCard ==
    /\ r_pc = "linkedin_cards"
    /\ r_loop.card <= Len(job_cards)
    /\ LET job_card == job_cards[r_loop.card]
           suggested_role == suggested_werkstudent_roles[r_loop.role]
       IN  IF /\ ~already_processed(job_card.url, processed_job_urls)
              /\ passes_filter(job_card.title, suggested_role)
           THEN /\ \E details_raise \in BOOLEAN :
                     /\ r_log' =
                          [r_log EXCEPT
                             !.details_fetched = @ \cup {job_card.title},
                             !.details_calls[job_card.url] = OneMore(@)]
                     /\ IF details_raise
                        THEN /\ r_pc' = "stepstone_search"
                             /\ job_cards' = <<>>
                             /\ r_loop' = [r_loop EXCEPT !.card = 0]
                             /\ UNCHANGED <<all_found_jobs, processed_job_urls>>
                        ELSE /\ all_found_jobs' = Append(all_found_jobs, job_card)
                             /\ processed_job_urls' = processed_job_urls \cup {job_card.url}
                             /\ r_loop' = [r_loop EXCEPT !.card = @ + 1]
                             /\ UNCHANGED <<r_pc, job_cards>>
           ELSE /\ r_loop' = [r_loop EXCEPT !.card = @ + 1]
                /\ UNCHANGED <<r_pc, job_cards, all_found_jobs, processed_job_urls, r_log>>
    /\ UNCHANGED <<target_locations, resume_text, suggested_werkstudent_roles, exit_code>>
    /\ OnlyRun

\* the loop of line 225 runs out of cards, or linkedin_jobs was empty
LinkedInCardsDone ==
    /\ r_pc = "linkedin_cards"
    /\ r_loop.card > Len(job_cards)
    /\ job_cards' = <<>>
    /\ r_loop' = [r_loop EXCEPT !.card = 0]
    /\ r_pc' = "stepstone_search"
    /\ UNCHANGED <<target_locations, resume_text, suggested_werkstudent_roles,
                   all_found_jobs, processed_job_urls, r_log, exit_code>>
    /\ OnlyRun

\* lines 207 and 210: the next role of this location, the first role of the
\* next location, or the end of both loops
NextCombination ==
    IF r_loop.role < Len(suggested_werkstudent_roles)
    THEN /\ r_loop' = [r_loop EXCEPT !.role = @ + 1, !.card = 0]
         /\ r_pc' = "linkedin_search"
    ELSE IF r_loop.location < Len(target_locations)
    THEN /\ r_loop' = [location |-> r_loop.location + 1, role |-> 1, card |-> 0]
         /\ r_pc' = "linkedin_search"
    ELSE /\ r_loop' = LoopStart
         /\ r_pc' = "check_found"

\* lines 255-263 and 288-291: stepstone_scraper.search_jobs returns or raises
SearchStepStone ==
    /\ r_pc = "stepstone_search"
    /\ \/ \E stepstone_jobs \in CardListsUpTo(MaxCards) :
            /\ job_cards' = stepstone_jobs
            /\ r_loop' = [r_loop EXCEPT !.card = 1]
            /\ r_pc' = "stepstone_cards"
       \/ /\ NextCombination
          /\ UNCHANGED job_cards
    /\ UNCHANGED <<target_locations, resume_text, suggested_werkstudent_roles,
                   all_found_jobs, processed_job_urls, r_log, exit_code>>
    /\ OnlyRun

\* lines 264-286 and 290: one card of stepstone_jobs
StepStoneCard ==
    /\ r_pc = "stepstone_cards"
    /\ r_loop.card <= Len(job_cards)
    /\ LET job_card == job_cards[r_loop.card]
           suggested_role == suggested_werkstudent_roles[r_loop.role]
       IN  IF /\ ~already_processed(job_card.url, processed_job_urls)
              /\ passes_filter(job_card.title, suggested_role)
           THEN /\ \E details_raise \in BOOLEAN :
                     /\ r_log' =
                          [r_log EXCEPT
                             !.details_fetched = @ \cup {job_card.title},
                             !.details_calls[job_card.url] = OneMore(@)]
                     /\ IF details_raise
                        THEN /\ NextCombination
                             /\ job_cards' = <<>>
                             /\ UNCHANGED <<all_found_jobs, processed_job_urls>>
                        ELSE /\ all_found_jobs' = Append(all_found_jobs, job_card)
                             /\ processed_job_urls' = processed_job_urls \cup {job_card.url}
                             /\ r_loop' = [r_loop EXCEPT !.card = @ + 1]
                             /\ UNCHANGED <<r_pc, job_cards>>
           ELSE /\ r_loop' = [r_loop EXCEPT !.card = @ + 1]
                /\ UNCHANGED <<r_pc, job_cards, all_found_jobs, processed_job_urls, r_log>>
    /\ UNCHANGED <<target_locations, resume_text, suggested_werkstudent_roles, exit_code>>
    /\ OnlyRun

\* the loop of line 264 runs out of cards, or stepstone_jobs was empty
StepStoneCardsDone ==
    /\ r_pc = "stepstone_cards"
    /\ r_loop.card > Len(job_cards)
    /\ job_cards' = <<>>
    /\ NextCombination
    /\ UNCHANGED <<target_locations, resume_text, suggested_werkstudent_roles,
                   all_found_jobs, processed_job_urls, r_log, exit_code>>
    /\ OnlyRun

\* a mutation of has_no_jobs: the check of line 297 never fires
has_no_jobs_never(jobs) == FALSE

\* line 297: not all_found_jobs
has_no_jobs(jobs) == jobs = <<>>

\* lines 297-299
CheckFound ==
    /\ r_pc = "check_found"
    /\ IF has_no_jobs(all_found_jobs)
       THEN Exit("1")
       ELSE r_pc' = "save" /\ UNCHANGED exit_code
    /\ UNCHANGED <<target_locations, resume_text, suggested_werkstudent_roles, r_loop,
                   job_cards, all_found_jobs, processed_job_urls, r_log>>
    /\ OnlyRun

\* lines 302-307 and 62-72: save_combined_jobs returns the path, returns None
\* when writing fails, or raises when os.makedirs (line 63, outside the try) fails
SaveCombined ==
    /\ r_pc = "save"
    /\ \E o \in {"saved", "write_fails", "makedirs_raises"} :
         /\ r_log' = [r_log EXCEPT !.save = o]
         /\ IF o = "saved" THEN r_pc' = "report" /\ UNCHANGED exit_code ELSE Exit("1")
    /\ UNCHANGED <<target_locations, resume_text, suggested_werkstudent_roles, r_loop,
                   job_cards, all_found_jobs, processed_job_urls>>
    /\ OnlyRun

\* lines 313-317
ExitSuccess ==
    /\ r_pc = "report"
    /\ Exit("0")
    /\ UNCHANGED <<target_locations, resume_text, suggested_werkstudent_roles, r_loop,
                   job_cards, all_found_jobs, processed_job_urls, r_log>>
    /\ OnlyRun

(***************************************************************************)
(* The salutation step of fill_application_form (lines 420-489).           *)
(***************************************************************************)
\* texts an option element can show; the first two are placeholder and blank
OptionTexts ==
    {<<>>,
     <<"B","i","t","t","e">>,
     <<"F","r","a","u">>,
     <<" ","H","E","R","R"," ">>,
     <<"M","r",".">>}

\* applicant_data.get("salutation_preference"): missing, or a text
SalutationPreferences ==
    {<<>>, <<"H","e","r","r">>, <<"f","r","a","u"," ">>, <<"M","x",".">>}

\* an option element: its text and whether it has a non-empty value attribute
\* (a value, where present, is the value of that option alone)
SalutationOptions == [text : OptionTexts, value : {"none", "set"}]

RECURSIVE OptionListsUpTo(_)
OptionListsUpTo(n) ==
    IF n = 0 THEN {<<>>}
    ELSE LET shorter == OptionListsUpTo(n - 1)
         IN  shorter \cup {Append(l, o) : l \in shorter, o \in SalutationOptions}

Herr == <<"h","e","r","r">>
Frau == <<"f","r","a","u">>
HerrVariations == {<<"m","r",".">>, <<"m","r">>}
FrauVariations == {<<"m","s",".">>, <<"m","s">>, <<"m","r","s",".">>, <<"m","r","s">>}

\* lines 432-451: match_found for one option text
match_found(option_text, preferred_salutation) ==
    LET normalized_preference == PyStrip(Lower(preferred_salutation))
        normalized_option_text == PyStrip(Lower(option_text))
    IN  \/ normalized_option_text = normalized_preference
        \/ normalized_preference = Herr /\ normalized_option_text \in HerrVariations
        \/ normalized_preference = Frau /\ normalized_option_text \in FrauVariations

SalStart ==
    [probe |-> "unset", i |-> 0, found_match |-> FALSE, selected |-> 0,
     how |-> "none", filled_count |-> 0, raised |-> FALSE]

OnlySal == UNCHANGED <<mainVars, normVars, dateVars, mandVars, linkVars, filterVars, runVars,
        scraperVars, uploadVars>>

\* lines 423-430 and 484-489: the dropdown is probed; hidden, or an error of the
\* probe or of listing the options, ends the step; so does a missing preference
ProbeSalutation ==
    /\ sal_pc = "probe"
    /\ \E o \in {"visible", "hidden", "raise"} :
         /\ sal' = [sal EXCEPT !.probe = o, !.i = 1]
         /\ sal_pc' = IF o = "visible" /\ sal_preference # <<>> THEN "options" ELSE "done"
    /\ UNCHANGED <<sal_preference, sal_options>>
    /\ OnlySal

\* lines 434-468: one option of the loop; an error of reading it or of selecting
\* it is caught at line 467 and the loop goes on
SalutationOption ==
    /\ sal_pc = "options"
    /\ sal.i <= Len(sal_options)
    /\ LET option == sal_options[sal.i]
           is_match == option.text # <<>> /\ match_found(option.text, sal_preference)
       IN  \E o \in {"ok", "read_raises", "select_raises"} :
             /\ o = "select_raises" => is_match
             /\ IF o = "ok" /\ is_match
                THEN /\ sal' = [sal EXCEPT
                                  !.selected = sal.i,
                                  !.how = IF option.value = "set" THEN "value" ELSE "label",
                                  !.filled_count = @ + 1,
                                  !.found_match = TRUE]
                     /\ sal_pc' = "done"
                ELSE /\ sal' = [sal EXCEPT !.i = @ + 1,
                                           !.raised = @ \/ o # "ok"]
                     /\ sal_pc' = "options"
    /\ UNCHANGED <<sal_preference, sal_options>>
    /\ OnlySal

\* line 470: if not found_match
needs_fallback(found) == ~found

\* the loop of line 434 ran out of options
SalutationOptionsDone ==
    /\ sal_pc = "options"
    /\ sal.i > Len(sal_options)
    /\ sal_pc' = IF needs_fallback(sal.found_match) THEN "fallback" ELSE "done"
    /\ UNCHANGED <<sal_preference, sal_options, sal>>
    /\ OnlySal

\* lines 470-483: the option at index 1, by its value or by its index
SalutationFallback ==
    /\ sal_pc = "fallback"
    /\ IF Len(sal_options) > 1
       THEN \E o \in {"ok", "raise"} :
              sal' = IF o = "ok"
                     THEN [sal EXCEPT
                             !.selected = 2,
                             !.how = IF sal_options[2].value = "set"
                                     THEN "value" ELSE "index",
                             !.filled_count = @ + 1]
                     ELSE [sal EXCEPT !.raised = TRUE]
       ELSE UNCHANGED sal
    /\ sal_pc' = "done"
    /\ UNCHANGED <<sal_preference, sal_options>>
    /\ OnlySal

(***************************************************************************)
(* The browser operations of the scrapers:                                 *)
(*   src/src/scrapers/linkedin_scraper.py, src/src/scrapers/stepstone_scraper.py *)
(* Every operation runs inside its own `with sync_playwright()`.           *)
(***************************************************************************)
LinkedInSearch == "LinkedInScraper.search_jobs"
LinkedInDetails == "LinkedInScraper.get_job_details"
StepstoneSearch == "StepstoneScraper.search_jobs"
StepstoneDetails == "StepstoneScraper.get_job_details"

ScraperOperations == {LinkedInSearch, LinkedInDetails, StepstoneSearch, StepstoneDetails}

\* linkedin_scraper.py line 105
MAX_SCROLL_ATTEMPTS == 10

\* document.body.scrollHeight, as far as the model tells heights apart
Heights == 1..MaxHeight

\* a job card of the results list: the href of its link ("" when there is none)
\* and whether title, company and location can all be read
JobElements == [url : CardUrls, complete : BOOLEAN]

RECURSIVE ElementListsUpTo(_)
ElementListsUpTo(n) ==
    IF n = 0 THEN {<<>>}
    ELSE LET shorter == ElementListsUpTo(n - 1)
         IN  shorter \cup {Append(l, e) : l \in shorter, e \in JobElements}

ScraperSessionStart ==
    [playwright |-> "off", browser |-> "None", context |-> "None", page |-> "None",
     raised |-> FALSE]

SearchStart ==
    [max_results |-> 0, job_list |-> <<>>, processed_urls |-> {}, last_height |-> 0,
     scroll_attempts |-> 0, result |-> <<>>]

OnlyScraper ==
    UNCHANGED <<mainVars, normVars, dateVars, mandVars, linkVars, filterVars, runVars,
                salVars, uploadVars>>

\* an exception leaves the body of the with statement
ScraperRaise == scr_session' = [scr_session EXCEPT !.raised = TRUE]

\* linkedin 86, 214; stepstone 82, 229: sync_playwright().__enter__()
ScraperStart ==
    /\ scr_pc = "start"
    /\ \E ok \in BOOLEAN :
         IF ok
         THEN /\ scr_session' = [scr_session EXCEPT !.playwright = "running"]
              /\ scr_pc' = "launch"
         ELSE /\ ScraperRaise
              /\ scr_pc' = "raised"
    /\ UNCHANGED <<scr_op, scr_search>>
    /\ OnlyScraper

\* linkedin 87, 216; stepstone 83, 230: p.chromium.launch, outside any try
ScraperLaunch ==
    /\ scr_pc = "launch"
    /\ \E ok \in BOOLEAN :
         IF ok
         THEN /\ scr_session' = [scr_session EXCEPT !.browser = "open"]
              /\ scr_pc' = IF scr_op = LinkedInSearch THEN "new_page" ELSE "new_context"
         ELSE /\ ScraperRaise
              /\ scr_pc' = "with_exit"
    /\ UNCHANGED <<scr_op, scr_search>>
    /\ OnlyScraper

\* linkedin 218; stepstone 84, 231: browser.new_context, outside any try
ScraperNewContext ==
    /\ scr_pc = "new_context"
    /\ \E ok \in BOOLEAN :
         IF ok
         THEN /\ scr_session' = [scr_session EXCEPT !.context = "open"]
              /\ scr_pc' = "new_page"
         ELSE /\ ScraperRaise
              /\ scr_pc' = "with_exit"
    /\ UNCHANGED <<scr_op, scr_search>>
    /\ OnlyScraper

\* linkedin 88, 219; stepstone 85, 232: new_page, outside any try
ScraperNewPage ==
    /\ scr_pc = "new_page"
    /\ \E ok \in BOOLEAN :
         IF ok
         THEN /\ scr_session' = [scr_session EXCEPT !.page = "open"]
              /\ scr_pc' = IF scr_op = LinkedInSearch THEN "goto"
                           ELSE IF scr_op = StepstoneSearch THEN "pages"
                           ELSE "details"
         ELSE /\ ScraperRaise
              /\ scr_pc' = "with_exit"
    /\ UNCHANGED <<scr_op, scr_search>>
    /\ OnlyScraper

\* linkedin 94-103: the first navigation; when it fails the browser is closed and
\* job_list returned from inside the with statement; then the first height is read
LinkedInGoto ==
    /\ scr_pc = "goto"
    /\ \/ \E h \in Heights :
            /\ scr_search' = [scr_search EXCEPT !.last_height = h]
            /\ scr_pc' = "while"
            /\ UNCHANGED scr_session
       \/ \E o \in {"goto_fails", "goto_fails_close_raises", "evaluate_raises"} :
            /\ scr_session' =
                 [scr_session EXCEPT
                    !.browser = IF o = "goto_fails" THEN "closed" ELSE @,
                    !.page = IF o = "goto_fails" THEN "closed" ELSE @,
                    !.raised = o # "goto_fails"]
            /\ scr_pc' = "with_exit"
            /\ UNCHANGED scr_search
    /\ UNCHANGED scr_op
    /\ OnlyScraper

RECURSIVE ScrapeCards(_, _, _, _)
\* linkedin 117-161: the cards of one pass, in order
ScrapeCards(elements, job_list, processed_urls, max_results) ==
    IF elements = <<>> \/ Len(job_list) >= max_results
    THEN [job_list |-> job_list, processed_urls |-> processed_urls]
    ELSE LET e == Head(elements)
         IN  IF e.url = "" \/ e.url \in processed_urls \/ ~e.complete
             THEN ScrapeCards(Tail(elements), job_list, processed_urls, max_results)
             ELSE ScrapeCards(Tail(elements), Append(job_list, e.url),
                              processed_urls \cup {e.url}, max_results)

\* linkedin 107: the test of the while loop
keeps_scrolling(job_list, max_results, scroll_attempts) ==
    Len(job_list) < max_results /\ scroll_attempts < MAX_SCROLL_ATTEMPTS

\* linkedin 107
LinkedInWhile ==
    /\ scr_pc = "while"
    /\ scr_pc' = IF keeps_scrolling(scr_search.job_list, scr_search.max_results,
                                    scr_search.scroll_attempts)
                 THEN "pass" ELSE "close"
    /\ UNCHANGED <<scr_op, scr_session, scr_search>>
    /\ OnlyScraper

\* linkedin 108-190: one pass of the loop: the cards now on the page are scraped,
\* the page is scrolled and its height read again, twice when it did not change
LinkedInPass ==
    /\ scr_pc = "pass"
    /\ \E elements \in ElementListsUpTo(MaxElements) :
         LET got == ScrapeCards(elements, scr_search.job_list,
                                scr_search.processed_urls, scr_search.max_results)
             scraped == [scr_search EXCEPT !.job_list = got.job_list,
                                           !.processed_urls = got.processed_urls]
         IN  IF Len(got.job_list) >= scr_search.max_results
             THEN /\ scr_search' = scraped
                  /\ scr_pc' = "close"
                  /\ UNCHANGED scr_session
             ELSE \/ \E new_height \in Heights, later_height \in Heights :
                       /\ new_height # scr_search.last_height =>
                              later_height = new_height
                       /\ scr_search' =
                            [scraped EXCEPT
                               !.scroll_attempts =
                                   IF later_height = scr_search.last_height
                                   THEN @ + 1 ELSE 0,
                               !.last_height =
                                   IF later_height = scr_search.last_height
                                   THEN @ ELSE later_height]
                       /\ scr_pc' = IF later_height = scr_search.last_height
                                    THEN "close" ELSE "while"
                       /\ UNCHANGED scr_session
                  \/ /\ scr_search' = scraped
                     /\ ScraperRaise
                     /\ scr_pc' = "with_exit"
    /\ UNCHANGED scr_op
    /\ OnlyScraper

\* linkedin 195-196: browser.close() after the loop, outside any try
LinkedInClose ==
    /\ scr_pc = "close"
    /\ \E ok \in BOOLEAN :
         scr_session' = IF ok
                        THEN [scr_session EXCEPT !.browser = "closed", !.page = "closed"]
                        ELSE [scr_session EXCEPT !.raised = TRUE]
    /\ scr_pc' = "with_exit"
    /\ UNCHANGED <<scr_op, scr_search>>
    /\ OnlyScraper

\* stepstone 88-205: the loop over result pages; an error of a page is caught at
\* line 201 and ends the loop
StepstonePages ==
    /\ scr_pc = "pages"
    /\ scr_pc' = "close_all"
    /\ UNCHANGED <<scr_op, scr_session, scr_search>>
    /\ OnlyScraper

\* linkedin 222-273; stepstone 234-324: the job page is loaded and its
\* description extracted; every error is caught
FetchDetails ==
    /\ scr_pc = "details"
    /\ scr_pc' = "close_all"
    /\ UNCHANGED <<scr_op, scr_session, scr_search>>
    /\ OnlyScraper

\* linkedin 282-288; stepstone 206-211, 326-331: page.close(), context.close()
\* and browser.close() in one try; the first that raises skips the rest
CloseAll ==
    /\ scr_pc = "close_all"
    /\ \E closed \in 0..3 :
         scr_session' =
             [scr_session EXCEPT
                !.page = IF closed >= 1 THEN "closed" ELSE @,
                !.context = IF closed >= 2 THEN "closed" ELSE @,
                !.browser = IF closed >= 3 THEN "closed" ELSE @]
    /\ scr_pc' = "with_exit"
    /\ UNCHANGED <<scr_op, scr_search>>
    /\ OnlyScraper

\* the with statement is left, by a return, normally or by an exception:
\* Playwright stops; search_jobs returns job_list[:max_results]
ScraperWithExit ==
    /\ scr_pc = "with_exit"
    /\ scr_session' = [scr_session EXCEPT
                         !.playwright = "stopped",
                         !.browser = playwright_stop(@),
                         !.context = playwright_stop(@),
                         !.page = playwright_stop(@)]
    /\ scr_search' =
         [scr_search EXCEPT
            !.result = IF scr_session.raised THEN <<>>
                       ELSE SubSeq(scr_search.job_list, 1,
                                   IF Len(scr_search.job_list) < scr_search.max_results
                                   THEN Len(scr_search.job_list)
                                   ELSE scr_search.max_results)]
    /\ scr_pc' = IF scr_session.raised THEN "raised" ELSE "returned"
    /\ UNCHANGED scr_op
    /\ OnlyScraper

(***************************************************************************)
(* The upload steps of fill_application_form: the resume (lines 516-536)   *)
(* and the other file inputs (lines 633-703), with the names of the inputs *)
(* and the paths of the placeholder documents.                             *)
(***************************************************************************)
NameCvCv == <<"c","v","[","c","v","]">>
NameCv == <<"c","v">>
NameResumeFile == <<"r","e","s","u","m","e","_","f","i","l","e">>
NameAnschreiben == <<"a","n","s","c","h","r","e","i","b","e","n">>
NameDocsArray == <<"d","o","c","s","[","]">>
NameDocsPlain == <<"d","o","c","s","_","_">>

\* the name attributes of the input[type="file"] elements of a form; several
\* inputs of a form may have the same name
InputNames ==
    {NameCvCv, NameCv, NameResumeFile, NameAnschreiben, NameDocsArray, NameDocsPlain}

RECURSIVE InputListsUpTo(_)
\* page.locator('input[type="file"]').all(), in document order
InputListsUpTo(n) ==
    IF n = 0 THEN {<<>>}
    ELSE LET shorter == InputListsUpTo(n - 1)
         IN  shorter \cup {Append(l, name) : l \in shorter, name \in InputNames}

\* line 101, FORM_SELECTORS["resume_upload"], on a file input with this name:
\* input[name="cv[cv]"], input[type="file"][name*="resume"], input[name="cv"],
\* input[name="lebenslauf"]
matches_resume_selector(name) ==
    \/ name = NameCvCv
    \/ Contains(name, <<"r","e","s","u","m","e">>)
    \/ name = NameCv
    \/ name = <<"l","e","b","e","n","s","l","a","u","f">>

\* line 103, FORM_SELECTORS["cover_letter_upload"], on a file input with this
\* name: input[type="file"][name*="cover"], input[name="coverLetter"],
\* input[name="anschreiben"]
matches_cover_letter_selector(name) ==
    \/ Contains(name, <<"c","o","v","e","r">>)
    \/ name = <<"c","o","v","e","r","L","e","t","t","e","r">>
    \/ name = NameAnschreiben

\* line 647: the inputs the other-uploads loop passes over as the resume input
is_resume_input(input_name_current) == input_name_current = NameCvCv

\* line 521: page.locator(resume_selector).first among the file inputs, 0 when
\* none matches
FirstResumeInput(inputs) ==
    IF \E k \in 1..Len(inputs) : matches_resume_selector(inputs[k])
    THEN CHOOSE k \in 1..Len(inputs) :
            /\ matches_resume_selector(inputs[k])
            /\ \A j \in 1..(k - 1) : ~matches_resume_selector(inputs[j])
    ELSE 0

\* line 681: re.sub(r'[^a-zA-Z0-9_\-]', '_', input_name)
safe_input_id(input_name) ==
    [k \in 1..Len(input_name) |->
        IF IsAlnum(input_name[k]) \/ input_name[k] \in {"_", "-"}
        THEN input_name[k] ELSE "_"]

\* line 682: random.randint(1000, 9999)
randint_low == 1000
randint_high == 9999

\* the values of random.randint the model draws from
RandomSuffixes ==
    {n \in randint_low..(randint_low + MaxSuffixes - 1) : n <= randint_high}

\* lines 679-683: placeholder_path; upload_type and, for one site, company_name
\* are the same for every document
placeholder_path(input_name, suffix) ==
    [safe_input_id |-> safe_input_id(input_name), suffix |-> suffix]

UploadStart ==
    [passes |-> 0, resume_at |-> 0, i |-> 0, other_uploads_count |-> 0,
     placeholder_at |-> {}, written |-> {}, overwritten |-> FALSE]

OnlyUpload ==
    UNCHANGED <<mainVars, normVars, dateVars, mandVars, linkVars, filterVars, runVars,
                salVars, scraperVars>>

\* lines 516-536: the resume goes to the first match of the resume selector
\* when a resume file exists and that input is enabled; then lines 633-642
UploadResume ==
    /\ up_pc = "resume"
    /\ \E o \in {"uploaded", "no_resume_file", "not_enabled", "error"} :
         /\ o = "uploaded" => FirstResumeInput(up_inputs) # 0
         /\ up' = [up EXCEPT
                     !.passes = @ + 1,
                     !.resume_at = IF o = "uploaded" THEN FirstResumeInput(up_inputs) ELSE 0,
                     !.i = 1,
                     !.other_uploads_count = 0,
                     !.placeholder_at = {}]
    /\ up_pc' = "file_loop"
    /\ UNCHANGED up_inputs
    /\ OnlyUpload

\* what one file input that is neither skipped as the resume input nor as a
\* cover letter input can meet
UploadOutcomes ==
    {"attribute_error", "hidden", "visibility_error", "no_text", "pdf_fails",
     "not_enabled", "enabled_error", "uploaded", "upload_error"}

\* generate_placeholder_pdf wrote the file (line 684 returned True)
WritesPlaceholder(o) == o \in {"not_enabled", "enabled_error", "uploaded", "upload_error"}

\* lines 644-699: one file input; an error outside the inner try of line 655
\* is caught at line 701 and ends the loop
UploadOther ==
    /\ up_pc = "file_loop"
    /\ up.i <= Len(up_inputs)
    /\ LET input_name == up_inputs[up.i]
       IN  \E o \in UploadOutcomes, suffix \in RandomSuffixes, evaluate_raises \in BOOLEAN :
             LET is_cover_letter ==
                     ~evaluate_raises /\ matches_cover_letter_selector(input_name)
                 skipped == is_resume_input(input_name) \/ is_cover_letter
                 over_cap == up.other_uploads_count >= max_other_uploads
                 met == IF o = "attribute_error" THEN o
                        ELSE IF skipped THEN "skipped"
                        ELSE IF o \in {"hidden", "visibility_error"} THEN o
                        ELSE IF over_cap THEN "over_cap"
                        ELSE o
                 path == placeholder_path(input_name, suffix)
                 leaves == met \in {"attribute_error", "visibility_error",
                                    "enabled_error", "upload_error"}
             IN  /\ up' = [up EXCEPT
                             !.i = IF leaves THEN 0 ELSE @ + 1,
                             !.other_uploads_count = IF met = "uploaded" THEN @ + 1 ELSE @,
                             !.placeholder_at = IF met = "uploaded" THEN @ \cup {up.i} ELSE @,
                             !.written = IF WritesPlaceholder(met) THEN @ \cup {path} ELSE @,
                             !.overwritten =
                                 @ \/ (WritesPlaceholder(met) /\ path \in up.written)]
                 /\ up_pc' = IF leaves THEN "done" ELSE "file_loop"
    /\ UNCHANGED up_inputs
    /\ OnlyUpload

\* the loop of line 644 runs out of file inputs
UploadsDone ==
    /\ up_pc = "file_loop"
    /\ up.i > Len(up_inputs)
    /\ up' = [up EXCEPT !.i = 0]
    /\ up_pc' = "done"
    /\ UNCHANGED up_inputs
    /\ OnlyUpload

\* another run fills the form of the same page; the documents of the earlier
\* run are still in output/generated_documents
RepeatPass ==
    /\ up_pc = "done"
    /\ up.passes < MaxPasses
    /\ up_pc' = "resume"
    /\ UNCHANGED <<up_inputs, up>>
    /\ OnlyUpload

(***************************************************************************)
(* Specifications.                                                         *)
(***************************************************************************)
\* The state before the operation named by `which` runs on its inputs; the
\* variables of the other operations rest.
InitFor(which) ==
    /\ pc \in IF which = "apply_to_job" THEN {"start"}
              ELSE IF which = "browser_operations" THEN {"start", "idle"}
              ELSE {"idle"}
    /\ user_data_dir \in IF pc = "start" THEN BOOLEAN ELSE {FALSE}
    /\ applicant_data \in IF pc = "start" \/ which = "start_date"
                          THEN {"dict", "not_a_dict"} ELSE {"dict"}
    /\ session = SessionStart
    /\ nav = NavStart
    /\ form = FormStart
    /\ cleanup = CleanupStart
    /\ n_pc = IF which = "normalize_text" THEN "input" ELSE "idle"
    /\ n_text \in IF which = "normalize_text"
                  THEN TextsUpTo(NormAlphabet, MaxTextLen) \cup TitleVariants
                  ELSE {<<>>}
    /\ n_once = NoText
    /\ n_twice = NoText
    /\ d_pc = IF which = "start_date" THEN "start_date" ELSE "idle"
    /\ d_today \in IF which = "start_date" THEN ValidDates
                   ELSE {[year |-> FirstYear, month |-> 1, day |-> 1]}
    /\ d_probe \in IF which = "start_date" THEN {"visible", "hidden", "raise"}
                   ELSE {"hidden"}
    /\ d_field = <<>>
    /\ d_count = 0
    /\ m_pc = IF which = "is_field_mandatory" THEN "call" ELSE "idle"
    /\ m_ctl \in IF which = "is_field_mandatory" THEN Controls
                 ELSE {[required |-> "none", aria |-> "none", id |-> "none",
                        name |-> "none", label_id |-> "hidden", span_id |-> "hidden",
                        label_name |-> "hidden", span_name |-> "hidden",
                        ancestor |-> "hidden"]}
    /\ m_result = "unset"
    /\ l_pc = IF which = "find_job_link" THEN "call" ELSE "idle"
    /\ l_links \in IF which = "find_job_link" THEN PagesUpTo(MaxLinks) ELSE {<<>>}
    /\ l_target \in IF which = "find_job_link" THEN TargetTitles ELSE {<<>>}
    /\ l_direct_fails \in IF which = "find_job_link" THEN BOOLEAN ELSE {FALSE}
    /\ l_result = 0
    /\ f_pc = IF which = "title_filter" THEN "call" ELSE "idle"
    /\ f_title \in IF which = "title_filter" THEN FoundTitles ELSE {<<>>}
    /\ f_suggestion \in IF which = "title_filter" THEN SuggestedTitles ELSE {<<>>}
    /\ f_matches = FALSE
    /\ f_kept = FALSE
    /\ r_pc = IF which = "run_agent" THEN "configure" ELSE "idle"
    /\ target_locations \in IF which = "run_agent" THEN LocationLists
                            ELSE {DEFAULT_SEARCH_LOCATIONS}
    /\ resume_text = "unread"
    /\ suggested_werkstudent_roles = <<>>
    /\ r_loop = LoopStart
    /\ job_cards = <<>>
    /\ all_found_jobs = <<>>
    /\ processed_job_urls = {}
    /\ r_log = LogStart
    /\ exit_code = "none"
    /\ sal_pc = IF which = "salutation" THEN "probe" ELSE "idle"
    /\ sal_preference \in IF which = "salutation" THEN SalutationPreferences ELSE {<<>>}
    /\ sal_options \in IF which = "salutation" THEN OptionListsUpTo(MaxOptions) ELSE {<<>>}
    /\ sal = SalStart
    /\ scr_pc = IF which = "linkedin_search" \/ (which = "browser_operations" /\ pc = "idle")
                THEN "start" ELSE "idle"
    /\ scr_op \in IF which = "browser_operations" /\ pc = "idle" THEN ScraperOperations
                  ELSE {LinkedInSearch}
    /\ scr_session = ScraperSessionStart
    /\ scr_search \in IF scr_pc = "start" /\ scr_op = LinkedInSearch
                      THEN {[SearchStart EXCEPT !.max_results = n] : n \in 0..MaxWanted}
                      ELSE {SearchStart}
    /\ up_pc = IF which = "uploads" THEN "resume" ELSE "idle"
    /\ up_inputs \in IF which = "uploads" THEN InputListsUpTo(MaxUploadInputs) ELSE {<<>>}
    /\ up = UploadStart

Init == InitFor("apply_to_job")

Next ==
    \/ StartPlaywright
    \/ Launch
    \/ NewPage
    \/ Goto
    \/ CookieBanners
    \/ WaitNetworkIdle
    \/ BuildCandidates
    \/ TryCandidate
    \/ CandidatesExhausted
    \/ AfterCandidates
    \/ ProceedToFill
    \/ FillSalutation
    \/ FillTextField
    \/ HandleResume
    \/ FillStartDateField
    \/ FillSalary
    \/ ListFileInputs
    \/ HandleFileInput
    \/ FileInputsExhausted
    \/ FillSource
    \/ FillConsent
    \/ FindSubmitButton
    \/ FillReturns
    \/ WithExit
    \/ ExceptClause
    \/ FinallyContext
    \/ FinallyBrowser
    \/ Return

Spec == Init /\ [][Next]_vars

NormNext == NormalizeOnce \/ NormalizeAgain

SpecNormalize == InitFor("normalize_text") /\ [][NormNext]_vars

DateNext == FillStartDate \/ SkipStartDate

SpecStartDate == InitFor("start_date") /\ [][DateNext]_vars

MandNext == CheckMandatory

SpecMandatory == InitFor("is_field_mandatory") /\ [][MandNext]_vars

LinkNext == FindJobLink

SpecJobLink == InitFor("find_job_link") /\ [][LinkNext]_vars

FilterNext == FilterTitle

SpecFilter == InitFor("title_filter") /\ [][FilterNext]_vars

RunNext ==
    \/ ConfigureGemini
    \/ ReadResume
    \/ SuggestRoles
    \/ ConstructScrapers
    \/ SearchLinkedIn
    \/ LinkedInCard
    \/ LinkedInCardsDone
    \/ SearchStepStone
    \/ StepStoneCard
    \/ StepStoneCardsDone
    \/ CheckFound
    \/ SaveCombined
    \/ ExitSuccess

SpecRunAgent == InitFor("run_agent") /\ [][RunNext]_vars

SalNext ==
    \/ ProbeSalutation
    \/ SalutationOption
    \/ SalutationOptionsDone
    \/ SalutationFallback

SpecSalutation == InitFor("salutation") /\ [][SalNext]_vars

LinkedInSearchNext ==
    \/ ScraperStart
    \/ ScraperLaunch
    \/ ScraperNewPage
    \/ LinkedInGoto
    \/ LinkedInWhile
    \/ LinkedInPass
    \/ LinkedInClose
    \/ ScraperWithExit

\* search_jobs keeps running until it returns or raises
SpecLinkedInSearch ==
    InitFor("linkedin_search") /\ [][LinkedInSearchNext]_vars /\ WF_vars(LinkedInSearchNext)

BrowserNext ==
    \/ Next
    \/ LinkedInSearchNext
    \/ ScraperNewContext
    \/ StepstonePages
    \/ FetchDetails
    \/ CloseAll

UploadNext ==
    \/ UploadResume
    \/ UploadOther
    \/ UploadsDone
    \/ RepeatPass

SpecUploads == InitFor("uploads") /\ [][UploadNext]_vars

\* one browser-using operation: apply_to_job, or an operation of a scraper
SpecBrowserOperations == InitFor("browser_operations") /\ [][BrowserNext]_vars

(***************************************************************************)
(* Claims.                                                                 *)
(***************************************************************************)

\* C1 (as claimed): an attempt in which no primary apply button was clicked
\* calls find_job_link before it is declared failed
C1_FallbackSearchesJobLink ==
    (nav.declared_failed /\ ~nav.clicked_primary_apply) => nav.find_job_link_calls > 0

\* C2: with no primary apply button clicked and no job link found, the form is
\* never filled and apply_to_job returns None
C2_FailedNavigationSkipsForm ==
    (~nav.clicked_primary_apply /\ nav.job_link_element = "None") =>
        /\ form.fill_calls = 0
        /\ pc = "done" => cleanup.result = "None"

\* C2 witness: the attempt returned after the candidate search ended with no click
C2_Witness == pc = "done" /\ nav.declared_failed /\ ~cleanup.raised

\* C3 (as claimed): the caller of fill_application_form receives the number of
\* fields filled, an integer
C3_FillReturnsCount ==
    form.form_filled.type # "unassigned" => form.form_filled = PyInt(form.filled_count)

\* C7: fill_application_form issues no click on the submit button
C7_SubmitNeverClicked == form.submit_clicks = 0

\* C7 witness: the form pass ended with the submit button found visible
C7_Witness == form.submit_located /\ form.form_filled.type # "unassigned"

\* the context was closed this many times: torn down with Playwright, or by close()
ContextCloses ==
    cleanup.context_close_calls + (IF session.context = "torn_down" THEN 1 ELSE 0)

\* C8 (as claimed): after an exception in the middle of form filling the context
\* is closed, exactly once, and close() is not called on a torn-down session
C8_ContextClosedOnceAfterFillError ==
    (pc = "done" /\ cleanup.raised_in = "fill") =>
        /\ session.context \in {"closed", "torn_down"}
        /\ ContextCloses = 1
        /\ ~cleanup.close_on_torn_down

\* no lookup on the control or around it fails
NoLookupFails(c) ==
    "raise" \notin {c.required, c.aria, c.id, c.name, c.label_id, c.span_id,
                    c.label_name, c.span_name, c.ancestor}

\* C4 (as claimed): among the controls whose lookups all succeed, one with a
\* 'required' attribute, the bare boolean form included, is reported mandatory,
\* and one with no required, aria-required or asterisk signal is reported not
\* mandatory
C4_RequiredAttributeIsMandatory ==
    (m_pc = "done" /\ NoLookupFails(m_ctl)) =>
        /\ (m_ctl.required \in {"empty", "set"} => m_result = "True")
        /\ ((/\ m_ctl.required = "none"
             /\ m_ctl.aria \in {"none", "false"}
             /\ "star" \notin {m_ctl.label_id, m_ctl.span_id, m_ctl.label_name,
                              m_ctl.span_name, m_ctl.ancestor})
            => m_result = "False")

\* C5 (as claimed): is_field_mandatory never raises, whatever lookups fail
C5_MandatoryNeverRaises == m_pc = "done" => m_result \in {"True", "False"}

\* the case of C6: two visible links, link i with exactly the target's normalized
\* text, link j with that text followed by more, both holding every keyword
ExactAndLonger(i, j) ==
    LET nt == normalize_text(l_target)
        ti == normalize_text(PyStrip(l_links[i].text))
        tj == normalize_text(PyStrip(l_links[j].text))
        keywords == target_keywords(nt)
    IN  /\ Len(l_links) = 2 /\ i # j
        /\ l_links[i].vis = "yes" /\ l_links[j].vis = "yes"
        /\ nt # <<>>
        /\ ti = nt
        /\ Len(tj) > Len(nt) /\ SubSeq(tj, 1, Len(nt)) = nt
        /\ keywords_present(ti, keywords) /\ keywords_present(tj, keywords)

\* C6 (as claimed): of an exact link and a longer one, find_job_link returns the
\* exact one, in either document order
C6_ExactLinkPreferred ==
    l_pc = "done" =>
        \A i, j \in 1..Len(l_links) : ExactAndLonger(i, j) => l_result = i

\* C9 (as claimed): on March 15 the start date filled in is June 1 of that year
C9_MarchGivesJune ==
    (d_pc = "salary" /\ d_probe = "visible" /\ d_today.month = 3 /\ d_today.day = 15)
        => d_field = <<"0","1",".","0","6",".">> \o FourDigits(d_today.year)

\* C9 (amended): on March 15 the start date filled in is May 1 of that year
C9_MarchGivesMay ==
    (d_pc = "salary" /\ d_probe = "visible" /\ d_today.month = 3 /\ d_today.day = 15)
        => d_field = <<"0","1",".","0","5",".">> \o FourDigits(d_today.year)

\* C9 witness: the start date was filled in on a March 15
C9_Witness ==
    d_pc = "salary" /\ d_count = 1 /\ d_today.month = 3 /\ d_today.day = 15

\* C10: normalize_text is idempotent: normalizing a normalized text changes nothing
C10_NormalizeIdempotent == n_pc = "twice" => n_twice = n_once

\* C10 witness: a text that normalization changed has been normalized twice
C10_Witness == n_pc = "twice" /\ n_once # n_text /\ n_once # <<>>

\* C11 (as claimed): the visual variants of a title normalize to the same string:
\* normalize_text("  Werkstudent (m/w/d) - ") equals normalize_text("WERKSTUDENT")
C11_TitleVariantsNormalizeAlike ==
    (n_pc = "once" /\ n_text = TitleWithGenderSuffix)
        => n_once = normalize_text(TitleUpperCase)

\* C12 (as claimed): against the suggestion "Werkstudent Data Analysis" the filter
\* keeps the title "Werkstudent Data Analyst (m/w/d)" and drops the title
\* "Senior Werkstudent Lead"
C12_ScenarioKeepsOnlyFirstTitle ==
    (f_pc = "done" /\ f_suggestion = SuggestionDataAnalysis) =>
        /\ (f_title = TitleDataAnalyst => f_kept)
        /\ (f_title = TitleSeniorLead => ~f_kept)

\* the found title, lower-cased, contains neither "werkstudent" nor "working student"
LacksStudentToken(title) ==
    /\ ~Contains(Lower(title), <<"w","e","r","k","s","t","u","d","e","n","t">>)
    /\ ~Contains(Lower(title), <<"w","o","r","k","i","n","g"," ","s","t","u","d","e","n","t">>)

\* C13: title_matches_suggestion(T, S) is False whenever T, lower-cased, contains
\* neither "werkstudent" nor "working student", whatever keywords of S appear in T
C13_NoStudentTokenNoMatch ==
    (f_pc = "done" /\ LacksStudentToken(f_title)) => ~f_matches

\* C13 witness: a title without the token that holds every keyword of a suggestion
\* with keywords was rejected
C13_Witness ==
    LET keywords == FindWords(Lower(f_suggestion), <<>>) \ ignore_terms
    IN  /\ f_pc = "done"
        /\ LacksStudentToken(f_title)
        /\ keywords # {}
        /\ \A term \in keywords : Contains(Lower(f_title), term)
        /\ ~f_matches

\* the title, lower-cased, contains "senior"
NamesSenior(title) == Contains(Lower(title), <<"s","e","n","i","o","r">>)

\* C14: a job whose title contains "senior" in any letter case is never appended
\* to all_found_jobs and never has its details fetched, in the LinkedIn and in
\* the StepStone branch, whatever title_matches_suggestion returns for it
C14_SeniorTitlesNeverCollected ==
    /\ \A i \in 1..Len(all_found_jobs) : ~NamesSenior(all_found_jobs[i].title)
    /\ \A title \in r_log.details_fetched : ~NamesSenior(title)

\* the card the loop over job_cards has just passed
PassedCard == job_cards[r_loop.card - 1]

\* a card with a fresh url and a "senior" title that title_matches_suggestion
\* accepts for the current role has just been passed
PassedSeniorMatch ==
    /\ r_loop.card > 1
    /\ NamesSenior(PassedCard.title)
    /\ ~already_processed(PassedCard.url, processed_job_urls)
    /\ title_matches_suggestion(PassedCard.title,
                                suggested_werkstudent_roles[r_loop.role])

\* C14 witness: in a run that collected a job, such a card, spelling the word in
\* upper case, was passed in the StepStone branch
C14_Witness ==
    /\ all_found_jobs # <<>>
    /\ r_pc = "stepstone_cards"
    /\ PassedSeniorMatch
    /\ ~Contains(PassedCard.title, <<"e","n","i","o","r">>)

\* C15: the run exits with code 1 before any scraping when the suggestion service
\* cannot be configured, the resume is unreadable or no roles are suggested; it
\* exits with code 1 when the loops end with no job collected or saving fails;
\* it exits with code 0 only with at least one job collected and the file saved
C15_ExitCodes ==
    /\ (r_log.configured = "no" \/ resume_text \in {"", "None"} \/ r_log.roles = "none")
          => (r_pc = "exited" /\ exit_code = "1" /\ ~r_log.scraping_started)
    /\ (r_pc \in {"save", "report", "exited"} /\ r_log.scraping_started
          /\ all_found_jobs = <<>>)
          => (r_pc = "exited" /\ exit_code = "1")
    /\ r_log.save \in {"write_fails", "makedirs_raises"}
          => (r_pc = "exited" /\ exit_code = "1")
    /\ exit_code = "0" => (all_found_jobs # <<>> /\ r_log.save = "saved")
    /\ r_pc = "exited" <=> exit_code # "none"

\* C15 witness: a run that scraped, collected no job and exited
C15_Witness ==
    r_pc = "exited" /\ r_log.scraping_started /\ all_found_jobs = <<>>

\* C16 (as claimed): the candidate that is clicked is the first visible one: no
\* candidate found visible was passed over before it
C16_ClicksFirstVisible ==
    nav.clicked_primary_apply => ~nav.scan.visible_skipped

KindRank(kind) == IF kind = "text" THEN 1 ELSE IF kind = "regex" THEN 2 ELSE 3

\* a visible candidate whose text read, scroll, click and load wait raised no
\* error, a timeout of the click aside
CleanOutcomes == {"same_tab_load_ok", "new_tab_load_ok", "click_times_out_load_ok"}

\* C16 (amended): the candidates are examined one by one in list order, exact-text
\* selectors, then regex-text selectors, then attribute selectors; a candidate that
\* is not visible, or whose visibility check times out, is neither clicked nor an
\* error and the scan goes on; the scan ends, with the button counted as clicked,
\* exactly at the first visible candidate that raises no error; a visible
\* candidate is passed over only when it raised one
C16_ScanOrder ==
    [][/\ pc = "build" => (nav'.btn = 1 /\ KindOf(nav'.btn) = "text")
       /\ (pc = "candidates" /\ nav.btn <= NumButtons) =>
            LET o == nav'.scan.outcome
            IN  /\ pc' = "candidates" =>
                      /\ nav'.btn = nav.btn + 1
                      /\ nav'.btn <= NumButtons =>
                             KindRank(KindOf(nav.btn)) <= KindRank(KindOf(nav'.btn))
                /\ o = "not_visible" =>
                      /\ pc' = "candidates"
                      /\ nav'.click_calls = nav.click_calls
                      /\ cleanup' = cleanup
                /\ o \in CleanOutcomes <=> (pc' = "after_loop" /\ nav'.clicked_primary_apply)
                /\ (nav'.scan.visible_skipped /\ ~nav.scan.visible_skipped) =>
                      o \notin CleanOutcomes \cup {"not_visible"}]_vars

\* C16 witness: the scan passed over a visible candidate that raised an error and
\* ended at a later one, clicked in the same tab
C16_Witness ==
    /\ pc = "after_loop"
    /\ nav.clicked_primary_apply
    /\ nav.scan.visible_skipped
    /\ nav.scan.outcome = "same_tab_load_ok"

\* the statements of fill_application_form, and those after it
FillSteps ==
    {"fill_salutation", "fill_text", "fill_resume", "fill_start_date", "fill_salary",
     "list_files", "file_loop", "fill_source", "fill_consent", "find_submit",
     "fill_return"}

AfterFill == {"with_exit", "except", "finally_context", "finally_browser", "return", "done"}

C18_SearchesInsideKnownIframe ==
    pc = "candidates" => nav.scan.search_context = nav.scan.iframe_context

\* C19 (as claimed): among the controls whose lookups all succeed, one with a name
\* and no required, aria-required or id-based signal is reported mandatory when
\* the visible label[for=name] has an asterisk in its text, and when the visible
\* element following that visible label has one
C19_NameLabelAsteriskIsMandatory ==
    (/\ m_pc = "done" /\ NoLookupFails(m_ctl)
     /\ m_ctl.required = "none" /\ m_ctl.aria \in {"none", "false"}
     /\ IdLabelChecks(m_ctl) # "True"
     /\ m_ctl.name = "set") =>
        /\ m_ctl.label_name = "star" => m_result = "True"
        /\ (m_ctl.label_name \in {"star", "plain"} /\ m_ctl.span_name = "star")
              => m_result = "True"

C21_AtMostTwoPlaceholders ==
    /\ form.docs_made <= max_other_uploads
    /\ form.other_uploads_count <= max_other_uploads

\* day 1 of the month two calendar months after the month of t
TwoMonthsAfter(t) ==
    [year |-> IF t.month >= 11 THEN t.year + 1 ELSE t.year,
     month |-> IF t.month >= 11 THEN t.month - 10 ELSE t.month + 2,
     day |-> 1]

\* C23: for every current date the start date filled in is day 1 of the month
\* two calendar months after the current month, the year advanced from November
\* and December, whatever the day of the month and the applicant profile are
C23_StartDateTwoMonthsAfter ==
    (d_pc = "salary" /\ d_probe = "visible") =>
        /\ d_field = FormatDate(TwoMonthsAfter(d_today))
        /\ d_count = 1

\* C23 witness: the date was filled in on a 31 December, for a profile that is
\* not even a dictionary
C23_Witness ==
    /\ d_pc = "salary" /\ d_probe = "visible"
    /\ d_today.month = 12 /\ d_today.day = 31
    /\ applicant_data = "not_a_dict"
    /\ d_field = FormatDate([year |-> d_today.year + 1, month |-> 2, day |-> 1])

\* the options whose text matches the preference
MatchingOptions ==
    {k \in 1..Len(sal_options) :
        sal_options[k].text # <<>> /\ match_found(sal_options[k].text, sal_preference)}

\* C22 (as claimed): for a visible dropdown and a profile with a preference, an
\* option matching the preference is selected when there is one, the option at
\* index 1 when there is none and the dropdown has more than one option, and
\* the filled count rises by exactly one in both cases
C22_SalutationSelected ==
    (sal_pc = "done" /\ sal.probe = "visible" /\ sal_preference # <<>>) =>
        /\ MatchingOptions # {} =>
              (sal.selected \in MatchingOptions /\ sal.filled_count = 1)
        /\ (MatchingOptions = {} /\ Len(sal_options) > 1) =>
              (sal.selected = 2 /\ sal.filled_count = 1)

\* C24: when a browser-using operation has ended (apply_to_job, or search_jobs
\* or get_job_details of a scraper), by a return or by an exception, no browser
\* and no context it created is still open
C24_NothingLeftOpen ==
    /\ pc = "done" =>
          (session.browser # "open" /\ session.context # "open")
    /\ scr_pc \in {"returned", "raised"} =>
          (scr_session.browser # "open" /\ scr_session.context # "open")

\* C24 witness: StepstoneScraper.search_jobs ended by the exception of new_page,
\* raised after the launch and outside the try of the loop: its browser and its
\* context exist, no page was created
C24_Witness ==
    /\ scr_op = StepstoneSearch
    /\ scr_pc = "raised"
    /\ scr_session.page = "None"
    /\ scr_session.browser = "torn_down"
    /\ scr_session.context = "torn_down"

\* the URLs a run can meet
JobUrls == CardUrls \ {""}

\* no two entries of all_found_jobs have the same url
NoDuplicateJobs ==
    \A i, j \in 1..Len(all_found_jobs) :
        all_found_jobs[i].url = all_found_jobs[j].url => i = j

\* C25 (as claimed): all_found_jobs never holds two entries with the same url
\* and get_job_details is called at most once for a URL in a run
C25_DetailsCalledOncePerUrl ==
    /\ NoDuplicateJobs
    /\ \A u \in JobUrls : r_log.details_calls[u] # "again"

\* the card the loop of line 225 or 264 is about to handle has a URL of the set
AtSeenCard ==
    /\ r_pc \in {"linkedin_cards", "stepstone_cards"}
    /\ r_loop.card <= Len(job_cards)
    /\ job_cards[r_loop.card].url \in processed_job_urls

\* C25 (amended): the seen-URL set only grows; a card whose URL is in the set is
\* skipped with no detail fetch and no new entry; all_found_jobs never holds two
\* entries with the same url and its urls are those of the set; get_job_details
\* is never called for a URL of the set, so that it returns at most once for a
\* URL and is called again only for a URL whose earlier fetches all raised
C25_SeenUrlsNeverReprocessed ==
    [][/\ processed_job_urls \subseteq processed_job_urls'
       /\ AtSeenCard =>
             /\ all_found_jobs' = all_found_jobs
             /\ r_log'.details_calls = r_log.details_calls
             /\ processed_job_urls' = processed_job_urls
       /\ NoDuplicateJobs'
       /\ {all_found_jobs'[i].url : i \in 1..Len(all_found_jobs')} = processed_job_urls'
       /\ \A u \in JobUrls :
             /\ r_log'.details_calls[u] # r_log.details_calls[u] =>
                    u \notin processed_job_urls
             /\ u \in processed_job_urls' => r_log'.details_calls[u] # "never"
      ]_vars

\* C25 witness: the one card of a later search, of a title that passes the
\* filter, was skipped because its URL was in the set: the run fetched the
\* details of that URL once, holds one entry for it and added another URL since
C25_Witness ==
    /\ r_pc = "stepstone_cards"
    /\ Len(job_cards) = 1 /\ r_loop.card = 2
    /\ job_cards[1].url = "u1"
    /\ passes_filter(job_cards[1].title, suggested_werkstudent_roles[r_loop.role])
    /\ r_log.details_calls["u1"] = "once"
    /\ Len(all_found_jobs) = 2
    /\ all_found_jobs[1].url = "u1"
    /\ all_found_jobs[2].url = "u2"

\* C26 (as claimed): LinkedInScraper.search_jobs ends, by a return or by an
\* exception, whatever the page does
C26_LinkedInSearchTerminates == <>(scr_pc \in {"returned", "raised"})

\* C27 (as claimed): no placeholder document is written to the path of an
\* earlier one, within one form pass or across repeated passes on the same page
C27_PlaceholderPathsFresh == ~up.overwritten

\* C30 (as claimed): the input that received the real resume is never given a
\* placeholder document, whichever resume selector matched it
C30_ResumeInputGetsNoPlaceholder ==
    up.resume_at # 0 => up.resume_at \notin up.placeholder_at

\* C28 (as claimed): at most one primary-apply candidate is ever clicked, even
\* when the wait for the page load after the click fails
C28_AtMostOneClick == nav.clicks_done <= 1

\* C29 (as claimed): a candidate counts as clicked only if its click completed;
\* a click that timed out is not counted
C29_CountedClickCompleted ==
    nav.clicked_primary_apply => CompletesClick(nav.scan.outcome)

====
